---- MODULE Spec2Model ----
(***************************************************************************)
(* Verification model of the DesignAutomationAssistant backend: the sync   *)
(* pipeline (services/sync_pipeline.py, services/storage_ingest.py,        *)
(* services/pdf_extraction.py, services/image_extraction.py) and the       *)
(* request layer that queues it (routes/tasks.py, routes/monday_handoff.py)*)
(*                                                                         *)
(* Spec      one Task; pipeline runs executed one after the other by       *)
(*           run_sync_pipeline_background, each run split into the steps   *)
(*           of run_sync_pipeline.                                         *)
(* SpecSync  concurrent sync / handoff-resolve requests and the background *)
(*           jobs they queue, the pipeline itself abstracted to its        *)
(*           outcome.                                                      *)
(* SpecRuns  several pipeline runs for one Task, each in its own session,  *)
(*           over the committed Snapshot table.                            *)
(***************************************************************************)
EXTENDS Integers, Sequences, FiniteSets, TLC

VARIABLES
    item,       \* the item as the work-item system returns it (fetch_item_with_assets)
    db,         \* committed rows: [snapshots, files, chunks]
    task,       \* the Task row: [latest, sync_status, sync_error]
    pc,         \* position of the background job
    run,        \* the job's local state: session (uncommitted rows), buffers, loop indices
    reqs,       \* SpecSync: position and locals of each request handler
    jobs,       \* SpecSync: background jobs queued or executing
    lim,        \* the rate limiter's fields and the wall clock
    thr,        \* the threads that use the limiter, or the concurrent jobs of SpecRuns:
                \* position and locals of each
    glob,       \* the module global _rate_limiter and the instances created; in
                \* SpecRuns the number of database transactions begun
    fn          \* a pure function under test: its arguments and its result

vars == <<item, db, task, pc, run, reqs, jobs, lim, thr, glob, fn>>

\* The variables a specification does not use keep their initial value.
rest == <<lim, thr, glob, fn>>

-----------------------------------------------------------------------------
(* Program constants, sync_pipeline.py 170-179 *)

MAX_SINGLE_PDF_SIZE == 30 * 1024 * 1024
MAX_EMAIL_SIZE == 20 * 1024 * 1024
MAX_IMAGE_SIZE == 10 * 1024 * 1024
MAX_TEXT_CHARS == 400000
MAX_CHUNKS_PER_DOC == 400
RSS_GUARD_MB == 2000
RSS_CRITICAL_MB == 3200
EMBED_BATCH_SIZE == 2
MAX_ATTACHMENTS_PER_EMAIL == 8
CHUNK_SIZE == 1000
CHUNK_OVERLAP == 150
ERROR_TEXT_LIMIT == 500

MB == 1024 * 1024

Min(a, b) == IF a < b THEN a ELSE b
Max(a, b) == IF a > b THEN a ELSE b

\* The elements of sequence s, and the subsequence of those satisfying Test.
Range(s) == {s[i] : i \in 1..Len(s)}
Head2(s, n) == IF Len(s) > n THEN SubSeq(s, 1, n) ELSE s

-----------------------------------------------------------------------------
(* Inputs the environment supplies *)

\* Resident-memory readings (MB) a probe can return: below the soft
\* threshold, between the two thresholds, above the hard threshold.
RssReadings == {1500, 2500, 3500}

\* Length of the text an inference call returns when it succeeds.
ExtractLens == {0, 500, 1200}

\* Error texts (by length) an exception can carry.
ErrShort == [id |-> "short", len |-> 40]
ErrLong == [id |-> "long", len |-> 700]
Errors == {ErrShort, ErrLong}

\* HTTPException(status_code=404, detail="Task not found"), 136
ErrNotFound == [id |-> "Task not found", len |-> 14]

-----------------------------------------------------------------------------
(* Memory governor, sync_pipeline.py 187-200 *)

ShouldSkip(rss) == rss # 0 /\ rss > RSS_GUARD_MB

ShouldAbort(rss) == rss # 0 /\ rss > RSS_CRITICAL_MB

-----------------------------------------------------------------------------
(* Chunker, sync_pipeline.py 202-218.  A text is modelled by its length;   *)
(* a window by its [start, end) offsets.                                   *)

\* A slip: the next window starts where the previous one ended.
NextStartAtEnd(end, overlap) == end

\* start = end - overlap; if start < 0: start = 0 (215-217)
NextStart(end, overlap) == Max(0, end - overlap)

RECURSIVE ChunkFrom(_, _, _, _)
ChunkFrom(len, start, size, overlap) ==
    IF ~(start < len) THEN <<>>
    ELSE LET end == Min(len, start + size) IN
         IF end >= len THEN <<[start |-> start, end |-> end]>>
         ELSE <<[start |-> start, end |-> end]>>
              \o ChunkFrom(len, NextStart(end, overlap), size, overlap)

\* _chunk_text(text, size, overlap)
ChunkTextWith(len, size, overlap) == IF len = 0 THEN <<>> ELSE ChunkFrom(len, 0, size, overlap)

\* _chunk_text(text) with the defaults of line 202
ChunkText(len) == ChunkTextWith(len, CHUNK_SIZE, CHUNK_OVERLAP)

-----------------------------------------------------------------------------
(* The work item.  An asset is [id, ext, namelen, size, hdr, body, atts]:  *)
(* ext is the file-name extension the dispatch looks at, namelen the       *)
(* length of the file name, size the byte count of                         *)
(* the download, hdr/body the lengths of an email's header block and body, *)
(* atts an email's attachments [filename, ext, size].  item.kinds is the   *)
(* result of extract_asset_kinds on the item's file columns, item.columns  *)
(* the length of the column text _build_column_text produces.              *)

NoAtts == <<>>

Asset(id, ext, size) ==
    [id |-> id, ext |-> ext, namelen |-> 6, size |-> size, hdr |-> 0, body |-> 0,
     atts |-> NoAtts]

Email(id, size, atts) ==
    [id |-> id, ext |-> "eml", namelen |-> 6, size |-> size, hdr |-> 120, body |-> 300,
     atts |-> atts]

Att(filename, ext, size) ==
    [filename |-> filename, ext |-> ext, namelen |-> 5, size |-> size]

ItemDocs ==
    [item_id |-> "i1", updated_at |-> 1,
     assets |-> <<Asset("a1", "pdf", 1 * MB)>>,
     updates |-> << <<Asset("a2", "png", 1 * MB), Asset("a1", "pdf", 1 * MB)>> >>,
     kinds |-> [x \in {"a1"} |-> "drawings"],
     columns |-> 300]

ItemBig ==
    [item_id |-> "i1", updated_at |-> 1,
     assets |-> <<Asset("a1", "png", 15 * MB), Asset("a2", "pdf", 40 * MB)>>,
     updates |-> <<>>,
     kinds |-> [x \in {} |-> ""],
     columns |-> 0]

ItemMail ==
    [item_id |-> "i1", updated_at |-> 1,
     assets |-> <<Email("a1", 1 * MB, <<Att("x.pdf", "pdf", 1 * MB), Att("y.png", "png", 1 * MB)>>)>>,
     updates |-> <<>>,
     kinds |-> [x \in {"a1"} |-> "email"],
     columns |-> 0]

ItemMailBig ==
    [item_id |-> "i1", updated_at |-> 1,
     assets |-> <<Email("a1", 1 * MB, <<Att("x.pdf", "pdf", 40 * MB), Att("y.png", "png", 15 * MB)>>),
                  Email("a2", 25 * MB, NoAtts)>>,
     updates |-> <<>>,
     kinds |-> [x \in {"a1", "a2"} |-> "email"],
     columns |-> 0]

\* One PDF and one image beyond MAX_IMAGE_SIZE, no column text.
ItemScan ==
    [item_id |-> "i1", updated_at |-> 1,
     assets |-> <<Asset("a1", "pdf", 1 * MB), Asset("a2", "png", 15 * MB)>>,
     updates |-> <<>>,
     kinds |-> [x \in {} |-> ""],
     columns |-> 0]

Items == {ItemDocs, ItemBig, ItemMail, ItemMailBig, ItemScan}

-----------------------------------------------------------------------------
(* storage_ingest.py *)

\* compute_snapshot_version, 38-49: the seed is the updated_at and the
\* sorted set of asset ids; the digest is modelled by its seed.
RECURSIVE Flatten(_)
Flatten(ss) == IF ss = <<>> THEN <<>> ELSE Head(ss) \o Flatten(Tail(ss))

ComputeSnapshotVersion(it) ==
    [updated_at |-> it.updated_at,
     ids |-> {a.id : a \in Range(it.assets)} \cup {a.id : a \in Range(Flatten(it.updates))}]

\* The monday_asset_id of a File: an asset's own id, or the derived id
\* "derived:<parent>:<sha>:<name>" of ingest_derived_attachment_bytes (270),
\* the content digest being fixed by parent and name.
AssetKey(id) == <<"asset", id, "">>
DerivedKey(parent, filename) == <<"derived", parent, filename>>

\* attachment_kind_for_filename, 250-256
AttachmentKindForFilename(ext) ==
    IF ext = "pdf" THEN "attachment_pdf"
    ELSE IF ext \in {"jpg", "jpeg", "png", "gif", "bmp", "webp"} THEN "attachment_image"
    ELSE "attachment_other"

FilesOf(files, snap, key) == {f \in files : f.snap = snap /\ f.asset = key}

\* The id the database gives a new row: one no row carries.
NewFileId(files, snap, key) == <<snap, key, Cardinality(FilesOf(files, snap, key))>>

\* A plausible slip: a plain INSERT, no ON CONFLICT clause.
UpsertAlwaysInsert(files, snap, key, kind, size) ==
    files \cup {[id |-> NewFileId(files, snap, key), snap |-> snap, asset |-> key,
                 kind |-> kind, size |-> size, gen |-> 1]}

\* upsert_task_file, 80-127: INSERT .. ON CONFLICT (external_task_key,
\* snapshot_id, monday_asset_id) DO UPDATE.  gen marks the rows the current
\* run wrote (1) against those left from earlier runs (0).
UpsertTaskFile(files, snap, key, kind, size) ==
    LET hit == FilesOf(files, snap, key) IN
    IF hit # {}
    THEN (files \ hit) \cup {[f EXCEPT !.kind = kind, !.size = size, !.gen = 1] : f \in hit}
    ELSE files \cup {[id |-> NewFileId(files, snap, key), snap |-> snap, asset |-> key,
                      kind |-> kind, size |-> size, gen |-> 1]}

\* RETURNING id, then db.get(TaskFile, id)
FileIdOf(files, snap, key) == (CHOOSE f \in FilesOf(files, snap, key) : TRUE).id

\* extract_asset_kinds / _collect_asset_jobs (sync_pipeline.py 104-125):
\* primary assets with their column kind, then update assets, first
\* occurrence of an id wins.
\* A slip: an id met again is taken again.
DedupKeepsAll(js, seen) == SelectSeq(js, LAMBDA j : j.asset.id # "")

RECURSIVE Dedup(_, _)
Dedup(js, seen) ==
    IF js = <<>> THEN <<>>
    ELSE IF Head(js).asset.id = "" \/ Head(js).asset.id \in seen
         THEN Dedup(Tail(js), seen)
         ELSE <<Head(js)>> \o Dedup(Tail(js), seen \cup {Head(js).asset.id})

CollectAssetJobs(it) ==
    LET primary == [i \in 1..Len(it.assets) |->
                      [asset |-> it.assets[i],
                       kind |-> IF it.assets[i].id \in DOMAIN it.kinds
                                THEN it.kinds[it.assets[i].id] ELSE "attachment"]]
        upd == Flatten(it.updates)
        updjobs == [i \in 1..Len(upd) |-> [asset |-> upd[i], kind |-> "update_attachment"]]
    IN Dedup(primary \o updjobs, {})

-----------------------------------------------------------------------------
(* The job's local state *)

NoVersion == [updated_at |-> 0, ids |-> {}]
NoSnap == <<NoVersion, 0>>
NoFile == <<NoSnap, <<"", "", "">>, 0>>
NoError == [id |-> "", len |-> 0]
NoCalls == [fetch |-> 0, download |-> 0, upload |-> 0, infer |-> 0, embed |-> 0]
NoLabel == <<"", "">>

IdleRun ==
    [force |-> FALSE, via |-> "", known |-> TRUE, fetched |-> ItemDocs, version |-> NoVersion, snap |-> NoSnap,
     reused |-> FALSE, idx |-> 0, phase |-> "", att |-> 0, efile |-> NoFile,
     snapshots |-> {}, files |-> {}, chunks |-> {},
     buffer |-> <<>>, cleared |-> {}, deletes |-> <<>>, dropped |-> {}, scratch |-> {}, aborted |-> FALSE,
     log |-> <<>>, generated |-> {}, calls |-> NoCalls,
     result |-> "", error |-> NoError, outcome |-> "",
     pre |-> [snapshots |-> {}, files |-> {}, chunks |-> {}, latest |-> NoVersion]]

\* Rows as a new session sees them: all of them written by earlier runs.
Aged(rows) == {[x EXCEPT !.gen = 0] : x \in rows}

\* One entry per asset or attachment a loop iteration dealt with: what became
\* of it, whether an inference call was made for it, and the memory reading
\* of that iteration; for a top-level PDF also the length of the text the
\* extraction returned.
LoggedText(r, unit, outcome, called, rss, len) ==
    [r EXCEPT !.log = Append(@, [unit |-> unit, outcome |-> outcome, called |-> called,
                                 rss |-> rss, len |-> len])]

Logged(r, unit, outcome, called, rss) == LoggedText(r, unit, outcome, called, rss, 0)

-----------------------------------------------------------------------------
(* Embedding batcher, sync_pipeline.py 224-334 *)

\* A slip: the File is marked cleared but its earlier Chunks are not deleted.
EnsureChunksMarkedOnly(r, fid) == [r EXCEPT !.cleared = @ \cup {fid}]

\* A slip: cleared_file_ids is not consulted.
EnsureChunksClearedAgain(r, fid) ==
    [r EXCEPT !.chunks = {c \in @ : c.file # fid}, !.cleared = @ \cup {fid},
              !.deletes = Append(@, fid)]

\* _ensure_chunks_cleared, 224-230; deletes lists the File ids the delete
\* was issued for, in order.
EnsureChunksCleared(r, fid) ==
    IF fid \in r.cleared THEN r
    ELSE [r EXCEPT !.chunks = {c \in @ : c.file # fid}, !.cleared = @ \cup {fid},
                   !.deletes = Append(@, fid)]

ChunkRow(rec) ==
    [file |-> rec.file, label |-> rec.label, n |-> rec.n, m |-> rec.m,
     text |-> rec.text, gen |-> 1]

\* A slip: a batch whose embedding call failed stays in the buffer.
FlushKeepsFailedBatch(r, rss, embedOk) ==
    IF r.buffer = <<>> THEN r
    ELSE IF ShouldSkip(rss) THEN [r EXCEPT !.buffer = <<>>]
    ELSE IF embedOk
         THEN [r EXCEPT !.chunks = @ \cup {ChunkRow(b) : b \in Range(r.buffer)},
                        !.buffer = <<>>, !.calls.embed = @ + 1]
         ELSE [r EXCEPT !.calls.embed = @ + 1, !.dropped = @ \cup Range(r.buffer)]

\* _flush_embed_buffer, 232-277: one embedding call for the whole buffer;
\* the buffer is emptied whether the call is skipped, succeeds or fails.
\* dropped collects the records of the batches whose embedding call failed.
FlushEmbedBuffer(r, rss, embedOk) ==
    IF r.buffer = <<>> THEN r
    ELSE IF ShouldSkip(rss) THEN [r EXCEPT !.buffer = <<>>]
    ELSE IF embedOk
         THEN [r EXCEPT !.chunks = @ \cup {ChunkRow(b) : b \in Range(r.buffer)},
                        !.buffer = <<>>, !.calls.embed = @ + 1]
         ELSE [r EXCEPT !.buffer = <<>>, !.calls.embed = @ + 1,
                        !.dropped = @ \cup Range(r.buffer)]

\* A slip: the threshold is not tested, the buffer waits for the final flush.
EnqueueChunkUnflushed(r, rec, rss, embedOk) ==
    IF rec.file = NoFile THEN r
    ELSE LET r1 == EnsureChunksCleared(r, rec.file)
         IN [r1 EXCEPT !.buffer = Append(@, rec), !.generated = @ \cup {rec}]

\* _enqueue_chunk, 279-297
EnqueueChunk(r, rec, rss, embedOk) ==
    IF rec.file = NoFile THEN r
    ELSE LET r1 == EnsureChunksCleared(r, rec.file)
             r2 == [r1 EXCEPT !.buffer = Append(@, rec), !.generated = @ \cup {rec}]
         IN IF Len(r2.buffer) >= EMBED_BATCH_SIZE THEN FlushEmbedBuffer(r2, rss, embedOk)
            ELSE r2

\* A slip: the kind is not looked at, a PDF's chunks are labelled by offset.
ChunkSectionByOffset(label, kind, multi, idx, chunk) ==
    IF label # NoLabel
    THEN IF multi THEN [label |-> label, n |-> idx, m |-> 0]
         ELSE [label |-> label, n |-> 0, m |-> 0]
    ELSE [label |-> <<"offset", "">>, n |-> chunk.start, m |-> chunk.end]

\* The section label of chunk idx, 324-333
ChunkSection(label, kind, multi, idx, chunk) ==
    IF label # NoLabel
    THEN IF multi THEN [label |-> label, n |-> idx, m |-> 0]
         ELSE [label |-> label, n |-> 0, m |-> 0]
    ELSE IF kind = "pdf" THEN [label |-> <<"chunk", "">>, n |-> idx, m |-> 0]
         ELSE [label |-> <<"offset", "">>, n |-> chunk.start, m |-> chunk.end]

RECURSIVE EnqueueFrom(_, _, _, _, _, _, _, _, _)
EnqueueFrom(r, fid, chunks, idx, kind, label, text, rss, embedOk) ==
    IF idx > Len(chunks) THEN r
    ELSE LET sec == ChunkSection(label, kind, Len(chunks) > 1, idx, chunks[idx])
             rec == [file |-> fid, label |-> sec.label, n |-> sec.n, m |-> sec.m, text |-> text]
         IN EnqueueFrom(EnqueueChunk(r, rec, rss, embedOk), fid, chunks, idx + 1,
                        kind, label, text, rss, embedOk)

\* process_doc_for_embedding, 299-334.  text names what the document says
\* (extracted text, a placeholder, ...), len is its stripped length.
ProcessDocForEmbedding(r, fid, len, text, kind, label, rss, embedOk) ==
    IF fid = NoFile THEN r
    ELSE IF ShouldSkip(rss) THEN r
    ELSE IF len = 0 THEN r
    ELSE LET chunks == Head2(ChunkText(Min(len, MAX_TEXT_CHARS)), MAX_CHUNKS_PER_DOC)
         IN EnqueueFrom(r, fid, chunks, 1, kind, label, text, rss, embedOk)

-----------------------------------------------------------------------------
(* Ingestion of one binary, storage_ingest.py 129-180 and 258-297: upload  *)
(* to the object store, then upsert the File row.                          *)

IngestAsset(r, job, size) ==
    [r EXCEPT !.files = UpsertTaskFile(@, r.snap, AssetKey(job.asset.id), job.kind, size),
              !.calls.upload = @ + 1]

IngestDerivedAttachmentBytes(r, parent, filename, kind, size) ==
    [r EXCEPT !.files = UpsertTaskFile(@, r.snap, DerivedKey(parent, filename), kind, size),
              !.calls.upload = @ + 1]

Downloaded(r) == [r EXCEPT !.calls.download = @ + 1]
\* A slip: the document is sent in a combined call and again by itself.
InferredTwice(r) == [r EXCEPT !.calls.infer = @ + 2]

\* One extractor call for one document: process_pdf_batch on a list of one
\* (531-533, 751-753) or process_image_with_gemini (615-617, 824-826).
Inferred(r) == [r EXCEPT !.calls.infer = @ + 1]

\* Outcome of one inference call (gemini_api_with_retry, retries included):
\* the text, or an exception.
ExtractOutcomes == {[ok |-> FALSE, len |-> 0]} \cup {[ok |-> TRUE, len |-> n] : n \in ExtractLens}

\* process_pdf_batch on a single file (pdf_extraction.py 65-73, 40-63): the
\* one file goes through process_pdfs_in_parallel, which catches the
\* worker's exception and returns "=== PDF: <name> ===\n<text or error>\n".
PdfHeaderLen(namelen) == 9 + namelen + 4 + 1
ProcessPdfBatch(ex, namelen) ==
    IF ex.ok THEN [text |-> "extracted", len |-> PdfHeaderLen(namelen) + ex.len]
    ELSE [text |-> "pdf_error", len |-> PdfHeaderLen(namelen) + 60]

-----------------------------------------------------------------------------
(* run_sync_pipeline, sync_pipeline.py 128-937, step by step.  A step      *)
(* yields the job's next local state and where control goes.               *)

Jobs(r) == CollectAssetJobs(r.fetched)

IsPdfAtt(a) == a.ext = "pdf"
IsImageAtt(a) == a.ext \in {"jpg", "jpeg", "png", "webp"}

\* pdf_attachments and image_attachments of an email, 487-490 and 579-585
PdfAtts(asset) == Head2(SelectSeq(asset.atts, IsPdfAtt), MAX_ATTACHMENTS_PER_EMAIL)
ImageAtts(asset) == Head2(SelectSeq(asset.atts, IsImageAtt), MAX_ATTACHMENTS_PER_EMAIL)

\* `continue` of the asset loop (337): the next job, or the end of the loop.
Continue(r) ==
    LET r1 == [r EXCEPT !.idx = @ + 1, !.phase = "asset", !.att = 0, !.efile = NoFile]
    IN [run |-> r1, pc |-> IF r1.idx > Len(Jobs(r)) THEN "coldoc" ELSE "ingest"]

\* An exception leaves run_sync_pipeline.
Raise(r, err) == [run |-> [r EXCEPT !.error = err], pc |-> "raised"]

\* os.unlink(att["temp_path"]) in the finally of an attachment's iteration,
\* 570-576, 641-646, 668-672, 697-701
Unlinked(r, filename) == [r EXCEPT !.scratch = @ \ {filename}]

\* The attachments the last loop of an email takes, 675-679
IsOtherAtt(a) == a.ext \notin {"pdf", "jpg", "jpeg", "png", "webp", "gif", "bmp"}

\* The loop over the other attachments, 682-701: each is ingested and its
\* scratch file removed.  (The emails of this model carry no inline image,
\* so the loop of 651-672 has nothing to do.)
RECURSIVE IngestOthers(_, _, _)
IngestOthers(r, parent, atts) ==
    IF atts = <<>> THEN r
    ELSE IngestOthers(
             Unlinked(IngestDerivedAttachmentBytes(r, parent, Head(atts).filename,
                                                   AttachmentKindForFilename(Head(atts).ext),
                                                   Head(atts).size),
                      Head(atts).filename),
             parent, Tail(atts))

\* What follows the image-attachment loop of an email, 648-705
EndEmail(r) ==
    LET asset == Jobs(r)[r.idx].asset
    IN Continue(IngestOthers(r, asset.id, SelectSeq(asset.atts, IsOtherAtt)))

\* The image-attachment loop of the current email (588), or past it.
EnterImageAtts(r) ==
    IF Len(ImageAtts(Jobs(r)[r.idx].asset)) >= 1
    THEN [run |-> [r EXCEPT !.phase = "imgatt", !.att = 1], pc |-> "ingest"]
    ELSE EndEmail(r)

\* The PDF-attachment loop of the current email (493), or past it.
EnterPdfAtts(r) ==
    IF Len(PdfAtts(Jobs(r)[r.idx].asset)) >= 1
    THEN [run |-> [r EXCEPT !.phase = "pdfatt", !.att = 1], pc |-> "ingest"]
    ELSE EnterImageAtts(r)

NextPdfAtt(r) ==
    IF r.att < Len(PdfAtts(Jobs(r)[r.idx].asset))
    THEN [run |-> [r EXCEPT !.att = @ + 1], pc |-> "ingest"]
    ELSE EnterImageAtts(r)

NextImageAtt(r) ==
    IF r.att < Len(ImageAtts(Jobs(r)[r.idx].asset))
    THEN [run |-> [r EXCEPT !.att = @ + 1], pc |-> "ingest"]
    ELSE EndEmail(r)

\* A slip the guard branches invite: skip the extraction and the File too.
GuardSkippedNoIngest(r, job, rss) ==
    Continue(Logged(Downloaded(r), <<job.asset.id, "">>, "guard_skip", FALSE, rss))

\* The memory guard of a top-level asset, 715-726, 785-796 and 425-436:
\* ingest the download as it is and go on to the next asset.
GuardSkipped(r, job, rss) ==
    Continue(Logged(IngestAsset(Downloaded(r), job, job.asset.size),
                    <<job.asset.id, "">>, "guard_skip", FALSE, rss))

\* A top-level PDF, 707-775
PdfAsset(r, job, rss, ex, embedOk) ==
    LET unit == <<job.asset.id, "">>
        size == job.asset.size
        r1 == Downloaded(r)
        r2 == IngestAsset(r1, job, size)
        r3 == IngestAsset(Inferred(r1), job, size)
        fid == FileIdOf(r2.files, r2.snap, AssetKey(job.asset.id))
        doc == ProcessPdfBatch(ex, job.asset.namelen)
    IN IF ShouldSkip(rss)
       THEN GuardSkipped(r, job, rss)
       ELSE IF size > MAX_SINGLE_PDF_SIZE
       THEN Continue(Logged(
                ProcessDocForEmbedding(r2, fid, 30 + 8 + 8, "too_large", "pdf", NoLabel, rss, embedOk),
                unit, "oversize", FALSE, rss))
       ELSE Continue(LoggedText(
                ProcessDocForEmbedding(r3, fid, doc.len, doc.text, "pdf", NoLabel, rss, embedOk),
                unit, IF ex.ok THEN "extracted" ELSE "extract_failed", TRUE, rss,
                IF ex.ok THEN ex.len ELSE 0))

\* A top-level image, 777-848.  process_image_with_gemini (image_extraction.py
\* 5-18) lets the exception of the inference call through.
ImageAsset(r, job, rss, ex, embedOk, err) ==
    LET unit == <<job.asset.id, "">>
        size == job.asset.size
        label == <<"image:description", "">>
        r1 == Downloaded(r)
        r2 == IngestAsset(r1, job, size)
        r3 == IngestAsset(Inferred(r1), job, size)
        fid == FileIdOf(r2.files, r2.snap, AssetKey(job.asset.id))
    IN IF ShouldSkip(rss)
       THEN GuardSkipped(r, job, rss)
       ELSE IF size # 0 /\ size > MAX_IMAGE_SIZE
       THEN Continue(Logged(
                ProcessDocForEmbedding(r2, fid, 32 + 8 + 8, "too_large", "image", label, rss, embedOk),
                unit, "oversize", FALSE, rss))
       ELSE IF ~ex.ok
       THEN Raise(Logged(Inferred(r1), unit, "extract_failed", TRUE, rss), err)
       ELSE Continue(Logged(
                ProcessDocForEmbedding(r3, fid, ex.len, "extracted", "image", label, rss, embedOk),
                unit, "extracted", TRUE, rss))

\* process_email_content_to_temp (email_extraction.py 81-158) writes one
\* scratch file per attachment that has a file name.
ScratchOf(asset) == {asset.atts[i].filename : i \in 1..Len(asset.atts)}

\* An email up to its attachment loops, 404-484
EmailAsset(r, job, rss, embedOk) ==
    LET unit == <<job.asset.id, "">>
        size == job.asset.size
        r1 == Downloaded(r)
        r2 == IngestAsset(r1, job, size)
        fid == FileIdOf(r2.files, r2.snap, AssetKey(job.asset.id))
        r3 == IF job.asset.hdr > 0
              THEN ProcessDocForEmbedding(r2, fid, job.asset.hdr, "header", "email",
                                          <<"email:header", "">>, rss, embedOk)
              ELSE r2
        r4 == IF job.asset.body > 0
              THEN ProcessDocForEmbedding(r3, fid, job.asset.body, "body", "email",
                                          <<"email:body", "">>, rss, embedOk)
              ELSE r3
    IN IF size # 0 /\ size > MAX_EMAIL_SIZE
       THEN Continue(Logged(r2, unit, "oversize", FALSE, rss))
       ELSE IF ShouldSkip(rss)
       THEN GuardSkipped(r, job, rss)
       ELSE EnterPdfAtts([Logged(r4, unit, "extracted", FALSE, rss)
                             EXCEPT !.efile = fid, !.scratch = ScratchOf(job.asset)])

\* A .gif or .bmp asset, 850-861
UnsupportedImageAsset(r, job, rss, embedOk) ==
    LET r1 == IngestAsset(Downloaded(r), job, job.asset.size)
        fid == FileIdOf(r1.files, r1.snap, AssetKey(job.asset.id))
    IN Continue(Logged(
           ProcessDocForEmbedding(r1, fid, 26 + 3, "unsupported", "image",
                                  <<"image:description", "">>, rss, embedOk),
           <<job.asset.id, "">>, "unsupported", FALSE, rss))

\* Any other asset, 863-868
DefaultAsset(r, job, rss) ==
    Continue(Logged(IngestAsset(Downloaded(r), job, job.asset.size),
                    <<job.asset.id, "">>, "ingested", FALSE, rss))

IsEmail(job) == job.asset.ext \in {"eml", "msg"} \/ job.kind = "email"

\* A slip: `continue` where the loop must `break`.
AbortedSkipsOne(r) == Continue([r EXCEPT !.aborted = TRUE])

\* The hard-memory abort, 339-342: leave the asset loop.
Aborted(r) == [run |-> [r EXCEPT !.aborted = TRUE], pc |-> "coldoc"]

\* One iteration of the asset loop, 337-868 (the items of this model hold no
\* CSV asset, so the CSV branch, 354-399, is not taken).  Every branch
\* begins with the download, which raises when the work-item system
\* refuses it (monday_client.py 103-110).
AssetIteration(r, rss, dl, ex, embedOk, err) ==
    LET job == Jobs(r)[r.idx] IN
    IF ShouldAbort(rss) THEN Aborted(r)
    ELSE IF ~dl THEN Raise(Logged(r, <<job.asset.id, "">>, "download_failed", FALSE, rss), err)
    ELSE IF IsEmail(job) THEN EmailAsset(r, job, rss, embedOk)
    ELSE IF job.asset.ext = "pdf" THEN PdfAsset(r, job, rss, ex, embedOk)
    ELSE IF job.asset.ext \in {"jpg", "jpeg", "png", "webp"}
    THEN ImageAsset(r, job, rss, ex, embedOk, err)
    ELSE IF job.asset.ext \in {"gif", "bmp"} THEN UnsupportedImageAsset(r, job, rss, embedOk)
    ELSE DefaultAsset(r, job, rss)

\* One iteration of an email's PDF-attachment loop, 493-576
PdfAttIteration(r, rss, ex, embedOk) ==
    LET job == Jobs(r)[r.idx]
        att == PdfAtts(job.asset)[r.att]
        unit == <<job.asset.id, att.filename>>
        label == <<"email:attachment", att.filename>>
        namelen == att.namelen
        doc == ProcessPdfBatch(ex, namelen)
        r1 == ProcessDocForEmbedding(Inferred(r), r.efile, 16 + namelen + 3 + doc.len, doc.text,
                                     "pdf", label, rss, embedOk)
        r2 == IngestDerivedAttachmentBytes(r1, job.asset.id, att.filename,
                                           AttachmentKindForFilename(att.ext), att.size)
    IN IF ShouldAbort(rss)
       THEN EnterImageAtts(Logged(r, unit, "abort_break", FALSE, rss))
       ELSE IF att.size > MAX_SINGLE_PDF_SIZE
       THEN NextPdfAtt(Unlinked(Logged(
                ProcessDocForEmbedding(r, r.efile, 16 + namelen + 2 + 26, "too_large",
                                       "pdf", label, rss, embedOk),
                unit, "oversize", FALSE, rss), att.filename))
       ELSE IF ShouldSkip(rss)
       THEN NextPdfAtt(Unlinked(Logged(r, unit, "guard_skip", FALSE, rss), att.filename))
       ELSE NextPdfAtt(Unlinked(Logged(r2, unit, IF ex.ok THEN "extracted" ELSE "extract_failed",
                                       TRUE, rss), att.filename))

\* One iteration of an email's image-attachment loop, 588-646
ImageAttIteration(r, rss, ex, embedOk, err) ==
    LET job == Jobs(r)[r.idx]
        att == ImageAtts(job.asset)[r.att]
        unit == <<job.asset.id, att.filename>>
        label == <<"email:attachment", att.filename>>
        namelen == att.namelen
        r1 == ProcessDocForEmbedding(Inferred(r), r.efile, 18 + namelen + 3 + ex.len, "extracted",
                                     "image", label, rss, embedOk)
        r2 == IngestDerivedAttachmentBytes(r1, job.asset.id, att.filename,
                                           "attachment_image", att.size)
    IN IF ShouldAbort(rss)
       THEN EndEmail(Logged(r, unit, "abort_break", FALSE, rss))
       ELSE IF att.size > MAX_IMAGE_SIZE
       THEN NextImageAtt(Unlinked(Logged(r, unit, "oversize", FALSE, rss), att.filename))
       ELSE IF ShouldSkip(rss)
       THEN NextImageAtt(Unlinked(Logged(r, unit, "guard_skip", FALSE, rss), att.filename))
       ELSE IF ~ex.ok
       THEN Raise(Unlinked(Logged(Inferred(r), unit, "extract_failed", TRUE, rss), att.filename), err)
       ELSE NextImageAtt(Unlinked(Logged(r2, unit, "extracted", TRUE, rss), att.filename))

\* The column document, 906-925
ColumnDoc(r, rss, embedOk) ==
    LET parent == r.fetched.item_id
        r1 == [r EXCEPT !.files = UpsertTaskFile(@, r.snap, <<"columns", parent, "monday_columns.txt">>,
                                                 "monday_columns", r.fetched.columns),
                        !.calls.upload = @ + 1]
        fid == FileIdOf(r1.files, r1.snap, <<"columns", parent, "monday_columns.txt">>)
    IN IF r.fetched.columns > 0
       THEN ProcessDocForEmbedding(r1, fid, r.fetched.columns, "columns", "monday_columns",
                                   <<"monday:columns", "">>, rss, embedOk)
       ELSE r

\* db.commit() / db.rollback(): the committed rows afterwards.
Commit(d, r) == [snapshots |-> r.snapshots, files |-> r.files, chunks |-> r.chunks]

RollbackKeepsSession(d, r) == Commit(d, r)

Rollback(d, r) == d

\* str(e)[:500], 969
Truncate(e) == [e EXCEPT !.len = Min(@, ERROR_TEXT_LIMIT)]

-----------------------------------------------------------------------------
(* Spec: the pipeline, one job at a time *)

NoJobs == [queued |-> 0, running |-> 0]

\* The failure handler of run_sync_pipeline_background, 959-972, after the
\* rollback: the Task is marked failed with the truncated error text, unless
\* the status update itself raises, which is logged and changes nothing.
MarkFailed(t, err, statusOk) ==
    IF statusOk THEN [t EXCEPT !.sync_status = "failed", !.sync_error = Truncate(err)]
    ELSE t

\* A slip: the failure handler writes the status without testing the row.
RecordFailureUntested(t, known, err, statusOk) == MarkFailed(t, err, statusOk)

\* The failure handler's `if task:`, 966: a key without a Task row gets no
\* status.
RecordFailure(t, known, err, statusOk) ==
    IF known THEN MarkFailed(t, err, statusOk) ELSE t

\* The success path, 951-958: the Task is marked completed; when that update
\* raises, control passes to the failure handler with the update's error.
MarkCompleted(t, commitOk, err, statusOk) ==
    IF commitOk THEN [t EXCEPT !.sync_status = "completed", !.sync_error = NoError]
    ELSE MarkFailed(t, err, statusOk)

NoTask == [latest |-> NoVersion, sync_status |-> "idle", sync_error |-> NoError]

Init ==
    /\ item \in Items
    /\ db = [snapshots |-> {}, files |-> {}, chunks |-> {}]
    /\ task = NoTask
    /\ pc = "idle"
    /\ run = IdleRun
    /\ reqs = <<>>
    /\ jobs = NoJobs
    /\ lim = <<>> /\ thr = <<>> /\ glob = <<>> /\ fn = <<>>

\* sync_task, routes/tasks.py 90-108, for a request that finds no sync in
\* progress: mark the Task syncing, commit, queue the job.
SyncTask ==
    /\ pc = "idle"
    /\ task.sync_status # "syncing"
    /\ \E force \in BOOLEAN : run' = [IdleRun EXCEPT !.force = force, !.via = "sync"]
    /\ task' = [task EXCEPT !.sync_status = "syncing", !.sync_error = NoError]
    /\ pc' = "queued"
    /\ UNCHANGED <<rest, item, db, reqs, jobs>>

\* handoff_resolve, routes/monday_handoff.py 94-117, for a Task that exists:
\* queue the job, force = False.
HandoffResolve ==
    /\ pc = "idle"
    /\ run' = [IdleRun EXCEPT !.force = FALSE, !.via = "handoff"]
    /\ pc' = "queued"
    /\ UNCHANGED <<rest, item, db, task, reqs, jobs>>

\* run_sync_pipeline_background called with a key the Task table does not
\* hold, 940-949: no route queues such a job, a direct caller can.
BackgroundUnknownKey ==
    /\ pc = "idle"
    /\ \E force \in BOOLEAN :
         run' = [IdleRun EXCEPT !.force = force, !.via = "direct", !.known = FALSE]
    /\ pc' = "queued"
    /\ UNCHANGED <<rest, item, db, task, reqs, jobs>>

\* A slip: the force flag read the wrong way round.
IsUnchangedForceInverted(hit, force) == hit # {} /\ force

\* A slip: the short-circuit is left out, every run ingests.
NeverUnchanged(hit, force) == FALSE

\* The idempotent short-circuit, 150-151
IsUnchanged(hit, force) == hit # {} /\ ~force

\* run_sync_pipeline 134-162: the Task lookup, fetch, fingerprint, snapshot lookup, the
\* unchanged short-circuit or the snapshot to ingest into.
Versioning(r, d, it, fetchOk, err) ==
    LET r0 == [r EXCEPT !.pre = [snapshots |-> d.snapshots, files |-> d.files,
                                 chunks |-> d.chunks, latest |-> task.latest],
                        !.snapshots = d.snapshots,
                        !.files = Aged(d.files),
                        !.chunks = Aged(d.chunks)]
        v == ComputeSnapshotVersion(it)
        hit == {s \in r0.snapshots : s.version = v}
        r1 == [r0 EXCEPT !.fetched = it, !.version = v, !.calls.fetch = @ + 1]
        r2 == IF hit # {}
              THEN [r1 EXCEPT !.snap = (CHOOSE s \in hit : TRUE).id, !.reused = TRUE]
              ELSE [r1 EXCEPT !.snap = <<v, 0>>,
                              !.snapshots = @ \cup {[id |-> <<v, 0>>, version |-> v]}]
        r0f == [r0 EXCEPT !.calls.fetch = @ + 1]
    IN IF ~r.known THEN Raise(r0, ErrNotFound)
       ELSE IF ~fetchOk THEN Raise(r0f, err)
       ELSE IF IsUnchanged(hit, r.force)
       THEN [run |-> [r1 EXCEPT !.result = "unchanged"], pc |-> "returned"]
       ELSE [run |-> [r2 EXCEPT !.idx = 1, !.phase = "asset"],
             pc |-> IF Len(CollectAssetJobs(it)) >= 1 THEN "ingest" ELSE "coldoc"]

StartRun ==
    /\ pc = "queued"
    /\ \E fetchOk \in BOOLEAN, err \in Errors :
         LET out == Versioning(run, db, item, fetchOk, err)
         IN run' = out.run /\ pc' = out.pc
    /\ UNCHANGED <<rest, item, db, task, reqs, jobs>>

AssetStep ==
    /\ pc = "ingest" /\ run.phase = "asset"
    /\ \E rss \in RssReadings, dl \in BOOLEAN, ex \in ExtractOutcomes,
          embedOk \in BOOLEAN, err \in Errors :
         LET out == AssetIteration(run, rss, dl, ex, embedOk, err)
         IN run' = out.run /\ pc' = out.pc
    /\ UNCHANGED <<rest, item, db, task, reqs, jobs>>

PdfAttStep ==
    /\ pc = "ingest" /\ run.phase = "pdfatt"
    /\ \E rss \in RssReadings, ex \in ExtractOutcomes, embedOk \in BOOLEAN :
         LET out == PdfAttIteration(run, rss, ex, embedOk)
         IN run' = out.run /\ pc' = out.pc
    /\ UNCHANGED <<rest, item, db, task, reqs, jobs>>

ImageAttStep ==
    /\ pc = "ingest" /\ run.phase = "imgatt"
    /\ \E rss \in RssReadings, ex \in ExtractOutcomes, embedOk \in BOOLEAN, err \in Errors :
         LET out == ImageAttIteration(run, rss, ex, embedOk, err)
         IN run' = out.run /\ pc' = out.pc
    /\ UNCHANGED <<rest, item, db, task, reqs, jobs>>

ColumnDocStep ==
    /\ pc = "coldoc"
    /\ \E rss \in RssReadings, embedOk \in BOOLEAN : run' = ColumnDoc(run, rss, embedOk)
    /\ pc' = "flush"
    /\ UNCHANGED <<rest, item, db, task, reqs, jobs>>

\* 927-937: the final flush, the Task's pointer, the commit, status done.
CommitStep ==
    /\ pc = "flush"
    /\ \E rss \in RssReadings, embedOk \in BOOLEAN :
         LET r1 == FlushEmbedBuffer(run, rss, embedOk)
         IN /\ run' = [r1 EXCEPT !.result = "done"]
            /\ db' = Commit(db, r1)
    /\ task' = [task EXCEPT !.latest = run.version]
    /\ pc' = "returned"
    /\ UNCHANGED <<rest, item, reqs, jobs>>

\* run_sync_pipeline_background 949-958: the pipeline returned.
Finish ==
    /\ pc = "returned"
    /\ \E commitOk \in BOOLEAN, err \in Errors, statusOk \in BOOLEAN :
         task' = MarkCompleted(task, commitOk, err, statusOk)
    /\ run' = [run EXCEPT !.outcome = "completed"]
    /\ pc' = "idle"
    /\ UNCHANGED <<rest, item, db, reqs, jobs>>

\* run_sync_pipeline_background 959-972: an exception escaped.
Fail ==
    /\ pc = "raised"
    /\ db' = Rollback(db, run)
    /\ \E statusOk \in BOOLEAN : task' = RecordFailure(task, run.known, run.error, statusOk)
    /\ run' = [run EXCEPT !.outcome = "failed"]
    /\ pc' = "idle"
    /\ UNCHANGED <<rest, item, reqs, jobs>>

Next ==
    \/ SyncTask
    \/ HandoffResolve
    \/ BackgroundUnknownKey
    \/ StartRun
    \/ AssetStep
    \/ PdfAttStep
    \/ ImageAttStep
    \/ ColumnDocStep
    \/ CommitStep
    \/ Finish
    \/ Fail

Spec == Init /\ [][Next]_vars

-----------------------------------------------------------------------------
(* SpecSync: the request layer.  Handlers run concurrently (one thread and *)
(* one database session per request); the jobs they queue run after the    *)
(* response, each in its own session.  The pipeline is abstracted to its   *)
(* outcome.                                                                *)

\* Requests the clients send in one behaviour.
MaxRequests == 3

NewReq == [kind |-> "", pc |-> "new", seen |-> "", inflight |-> 0, answer |-> ""]

InFlight(j) == j.queued + j.running

InitSync ==
    /\ item = ItemDocs
    /\ db = [snapshots |-> {}, files |-> {}, chunks |-> {}]
    /\ task = NoTask
    /\ pc = "idle"
    /\ run = IdleRun
    /\ reqs = [i \in 1..MaxRequests |-> NewReq]
    /\ jobs = NoJobs
    /\ lim = <<>> /\ thr = <<>> /\ glob = <<>> /\ fn = <<>>

\* sync_task, routes/tasks.py 76-88: require_task_access loads the Task row
\* into the request's session; the handler later reads the loaded value.
SyncLoad(i) ==
    /\ reqs[i].pc = "new"
    /\ reqs' = [reqs EXCEPT ![i] = [@ EXCEPT !.kind = "sync", !.pc = "loaded",
                                              !.seen = task.sync_status,
                                              !.inflight = InFlight(jobs)]]
    /\ UNCHANGED <<rest, item, db, task, pc, run, jobs>>

\* sync_task, routes/tasks.py 90-108: answer already_syncing, or mark the
\* Task syncing, commit and queue run_sync_pipeline_background.
SyncDecide(i) ==
    /\ reqs[i].pc = "loaded" /\ reqs[i].kind = "sync"
    /\ IF reqs[i].seen = "syncing"
       THEN /\ reqs' = [reqs EXCEPT ![i] = [@ EXCEPT !.pc = "done", !.answer = "already_syncing"]]
            /\ UNCHANGED <<task, jobs>>
       ELSE /\ reqs' = [reqs EXCEPT ![i] = [@ EXCEPT !.pc = "done", !.answer = "queued"]]
            /\ task' = [task EXCEPT !.sync_status = "syncing", !.sync_error = NoError]
            /\ jobs' = [jobs EXCEPT !.queued = @ + 1]
    /\ UNCHANGED <<rest, item, db, pc, run>>

\* handoff_resolve, routes/monday_handoff.py 94-117, with a valid code of
\* its own for the Task: commit, queue run_sync_pipeline_background.
HandoffResolveReq(i) ==
    /\ reqs[i].pc = "new"
    /\ reqs' = [reqs EXCEPT ![i] = [@ EXCEPT !.kind = "handoff", !.pc = "done",
                                              !.inflight = InFlight(jobs),
                                              !.answer = "resolved"]]
    /\ jobs' = [jobs EXCEPT !.queued = @ + 1]
    /\ UNCHANGED <<rest, item, db, task, pc, run>>

\* A queued job starts: run_sync_pipeline_background 947-949.
JobStart ==
    /\ jobs.queued > 0
    /\ jobs' = [jobs EXCEPT !.queued = @ - 1, !.running = @ + 1]
    /\ UNCHANGED <<rest, item, db, task, pc, run, reqs>>

\* A job ends: run_sync_pipeline_background 951-972.
JobEnd ==
    /\ jobs.running > 0
    /\ jobs' = [jobs EXCEPT !.running = @ - 1]
    /\ \E ok \in BOOLEAN, commitOk \in BOOLEAN, err \in Errors, statusOk \in BOOLEAN :
         task' = IF ok THEN MarkCompleted(task, commitOk, err, statusOk)
                 ELSE MarkFailed(task, err, statusOk)
    /\ UNCHANGED <<rest, item, db, pc, run, reqs>>

NextSync ==
    \/ \E i \in 1..MaxRequests : SyncLoad(i)
    \/ \E i \in 1..MaxRequests : SyncDecide(i)
    \/ \E i \in 1..MaxRequests : HandoffResolveReq(i)
    \/ JobStart
    \/ JobEnd

SpecSync == InitSync /\ [][NextSync]_vars

\* The server answers a request it has accepted and runs every job it has
\* queued (Starlette runs background tasks after the response); clients are
\* free to send no further request.
SpecSyncFair ==
    /\ SpecSync
    /\ \A i \in 1..MaxRequests : WF_vars(SyncDecide(i))
    /\ WF_vars(JobStart)
    /\ WF_vars(JobEnd)

-----------------------------------------------------------------------------
(* Properties of the pipeline (Spec)                                       *)

\* The committed rows as the run found them.
PreRows(r) == [snapshots |-> r.pre.snapshots, files |-> r.pre.files, chunks |-> r.pre.chunks]

\* The run has fetched the item and computed its fingerprint.
Versioned(r) == r.version # NoVersion

\* The fetched fingerprint already had a committed Snapshot when the run began.
SnapshotExisted(r) == \E s \in r.pre.snapshots : s.version = r.version

\* C1: a run with force = false whose fetched fingerprint already has a
\* committed Snapshot returns "unchanged" with that fingerprint, and neither
\* its session nor the database holds any File or Chunk row inserted, updated
\* or deleted by it; it made no download, upload, inference or embedding call.
C1_UnchangedTouchesNothing ==
    (Versioned(run) /\ ~run.force /\ SnapshotExisted(run))
        => /\ pc \in {"returned", "idle"}
           /\ run.result = "unchanged"
           /\ run.version = ComputeSnapshotVersion(item)
           /\ run.snapshots = run.pre.snapshots
           /\ run.files = Aged(run.pre.files)
           /\ run.chunks = Aged(run.pre.chunks)
           /\ run.buffer = <<>>
           /\ run.calls = [NoCalls EXCEPT !.fetch = 1]
           /\ db = PreRows(run)

\* An unchanged return over a Snapshot that holds Files and Chunks.
C1_Witness ==
    /\ pc = "returned" /\ run.result = "unchanged" /\ ~run.force
    /\ db.files # {} /\ db.chunks # {}

\* C3: when an exception has escaped the pipeline, the Snapshot, File and
\* Chunk tables and the Task's latest fingerprint are as the run found them,
\* the Task's status is failed and its error text is the exception's text
\* cut to at most 500 characters.
C3_FailureRollsBack ==
    (pc = "idle" /\ run.outcome = "failed")
        => /\ db = PreRows(run)
           /\ task.latest = run.pre.latest
           /\ task.sync_status = "failed"
           /\ task.sync_error.id = run.error.id
           /\ task.sync_error.len = (IF run.error.len > 500 THEN 500 ELSE run.error.len)

\* C3, the part the failure handler always delivers: the step that handles
\* an escaped exception leaves the Snapshot, File and Chunk tables and the
\* Task's latest fingerprint as the run found them, and either marks the Task
\* failed with the error text cut to 500 characters or, when that update
\* raises, leaves the Task row as it was.
C3_RollbackRestoresRows ==
    [][ pc = "raised"
          => /\ pc' = "idle"
             /\ db' = PreRows(run)
             /\ task'.latest = run.pre.latest
             /\ \/ task' = task
                \/ /\ task'.sync_status = "failed"
                   /\ task'.sync_error.id = run.error.id
                   /\ task'.sync_error.len = (IF run.error.len > 500 THEN 500 ELSE run.error.len)
      ]_vars

\* A failed run that had written Files and Chunks in its session over a
\* database that already held rows, with an error text beyond 500 characters,
\* whose status update did not land: the Task still reads syncing.
C3_Witness ==
    /\ pc = "idle" /\ run.outcome = "failed"
    /\ run.error.len > 500
    /\ task.sync_status = "syncing"
    /\ db.files # {}
    /\ \E f \in run.files : f.gen = 1
    /\ \E c \in run.chunks : c.gen = 1

\* The File row of a logged unit: the asset's own row, or the row derived
\* from the email for an attachment.
UnitKey(unit) == IF unit[2] = "" THEN AssetKey(unit[1]) ELSE DerivedKey(unit[1], unit[2])

\* The documents generated for a logged unit: those of its own File, or for
\* an attachment those filed under the email with the attachment's label.
UnitDocs(r, unit) ==
    IF unit[2] = ""
    THEN {g \in r.generated : g.file[1] = r.snap /\ g.file[2] = AssetKey(unit[1])}
    ELSE {g \in r.generated : /\ g.file[1] = r.snap /\ g.file[2] = AssetKey(unit[1])
                              /\ g.label = <<"email:attachment", unit[2]>>}

LastLog(r) == r.log[Len(r.log)]

\* C4: no failed extraction call makes the pipeline raise; each is replaced
\* by a placeholder document for its asset and the loop goes on.
C4_ExtractionFailureNeverRaises ==
    /\ (pc = "raised" /\ run.log # <<>>) => LastLog(run).outcome # "extract_failed"
    /\ \A i \in 1..Len(run.log) :
         run.log[i].outcome = "extract_failed"
             => \E g \in UnitDocs(run, run.log[i].unit) : g.text = "pdf_error"

\* What a run has produced so far: the rows it wrote, its asset log and the
\* calls that fetch or read an asset.
Produced(r) ==
    [files |-> {f \in r.files : f.gen = 1}, chunks |-> {c \in r.chunks : c.gen = 1}]

AssetWork(r) == <<r.log, r.idx, r.calls.download, r.calls.infer, r.generated \ {g \in r.generated : g.text = "columns"},
                  {f \in r.files : f.asset[1] # "columns"}>>

KeepsProduced(r, r2) ==
    /\ Produced(r).files \subseteq r2.files
    /\ Produced(r).chunks \subseteq r2.chunks
    /\ AssetWork(r2) = AssetWork(r)

\* C5: a reading above the hard threshold at the start of an asset's
\* iteration leaves the loop at once; from then on no asset is downloaded,
\* extracted or ingested, the rows produced so far stay, the column
\* document and the final flush run, the commit holds those rows, the
\* Task's latest fingerprint is the run's and the run returns "done".
C5_HardAbortKeepsPartial ==
    [][ /\ (~run.aborted /\ run'.aborted)
            => /\ pc = "ingest" /\ pc' = "coldoc"
               /\ run' = [run EXCEPT !.aborted = TRUE]
        /\ (run.aborted /\ pc = "coldoc")
            => /\ pc' = "flush"
               /\ KeepsProduced(run, run')
               /\ db' = db
        /\ (run.aborted /\ pc = "flush")
            => /\ pc' = "returned"
               /\ KeepsProduced(run, run')
               /\ run'.result = "done"
               /\ db'.files = run'.files /\ db'.chunks = run'.chunks
               /\ db'.snapshots = run'.snapshots
               /\ task'.latest = run.version
        /\ (run.aborted /\ pc = "returned")
            => /\ pc' = "idle"
               /\ task'.latest = run.version
               /\ db' = db
        /\ run.aborted => pc \in {"coldoc", "flush", "returned", "idle"}
        /\ \A i \in 1..Len(run'.log) :
             run'.log[i].unit[2] = "" => run'.log[i].rss <= 3200
      ]_vars

\* An aborted run has committed: assets were left unprocessed, and the
\* database holds a File and Chunks the run produced before the abort.
C5_Witness ==
    /\ pc = "returned" /\ run.aborted /\ run.result = "done"
    /\ run.idx <= Len(Jobs(run)) /\ run.idx > 1
    /\ task.latest = run.version
    /\ \E f \in db.files : f.gen = 1 /\ f.asset[1] = "asset"
    /\ \E c \in db.chunks : c.gen = 1 /\ c.text = "extracted"

\* The run has committed (result is set by the commit and stays until the
\* next request); db then carries the run's own gen marks.
Committed(r) == r.result = "done"

\* Files the committed run ingested again: rows it wrote whose id the
\* database already held when it began.
ReIngested(r) == {f \in db.files : f.gen = 1 /\ \E p \in r.pre.files : p.id = f.id}

ChunksOf(chunks, fid) == {c \in chunks : c.file = fid}
RecOf(c) == [file |-> c.file, label |-> c.label, n |-> c.n, m |-> c.m, text |-> c.text]
GeneratedFor(r, fid) == {g \in r.generated : g.file = fid}
OldChunks(fid) == {c \in ChunksOf(db.chunks, fid) : c.gen = 0}
NewChunks(fid) == {RecOf(c) : c \in {x \in ChunksOf(db.chunks, fid) : x.gen = 1}}

C7_ForcedRunReplacesRows ==
    (Committed(run) /\ run.force /\ run.reused) =>
        \A f \in {x \in db.files : x.snap = run.snap} :
            /\ f.gen = 1
            /\ \A c \in ChunksOf(db.chunks, f.id) : c.gen = 1

\* One row per (snapshot, asset id); the Task is the single one modelled.
OneRowPerTriple(files) ==
    \A f, g \in files : (f.snap = g.snap /\ f.asset = g.asset) => f = g

\* C8: the database and the running session never hold two File rows for one
\* (task, snapshot, asset id) triple, and a row the run wrote for a triple
\* that existed before carries the id the earlier row had.
C8_OneFilePerTriple ==
    /\ OneRowPerTriple(db.files)
    /\ OneRowPerTriple(run.files)
    /\ \A f \in run.files : \A p \in run.pre.files :
         (f.snap = p.snap /\ f.asset = p.asset) => f.id = p.id

\* The run has ingested an asset whose triple already had a row.
C8_Witness ==
    \E f \in run.files : /\ f.gen = 1 /\ f.asset[1] = "asset"
                         /\ \E p \in run.pre.files : p.snap = f.snap /\ p.asset = f.asset

\* The File row the run wrote for a logged unit, if any.
UnitFiles(r, unit) == {f \in FilesOf(r.files, r.snap, UnitKey(unit)) : f.gen = 1}

\* C9: every asset or email attachment that was over its size threshold or
\* skipped by the memory guard had no extraction call made for it, has a File
\* row written by the run and a placeholder document recorded for it, and
\* did not make the pipeline raise.
C9_SkippedInputsDegrade ==
    /\ \A i \in 1..Len(run.log) :
         run.log[i].outcome \in {"oversize", "guard_skip"}
             => /\ ~run.log[i].called
                /\ UnitFiles(run, run.log[i].unit) # {}
                /\ UnitDocs(run, run.log[i].unit) # {}
    /\ (pc = "raised" /\ run.log # <<>>)
           => LastLog(run).outcome \notin {"oversize", "guard_skip"}

\* The position in the asset loop of the job with this asset id.
JobIndex(r, id) == CHOOSE k \in 1..Len(Jobs(r)) : Jobs(r)[k].asset.id = id

\* Log entry e is of a top-level PDF, image or email whose iteration came to
\* the memory guard in front of its extraction with a reading above the soft
\* threshold: the download had succeeded and, for an email, the size check
\* in front of the guard had let it through.
GuardObserved(r, e) ==
    LET job == Jobs(r)[JobIndex(r, e.unit[1])] IN
    /\ e.unit[2] = ""
    /\ e.rss > 2000
    /\ e.outcome # "download_failed"
    /\ \/ IsEmail(job) /\ e.outcome # "oversize"
       \/ ~IsEmail(job) /\ job.asset.ext \in {"pdf", "jpg", "jpeg", "png", "webp"}

\* C10: whenever the soft threshold is observed in front of the extraction
\* of a top-level PDF, image or email, no extraction call is made for it,
\* the run writes its File row, generates no document for it, and goes on
\* to the next asset.
C10_SoftGuardSkipsExtraction ==
    \A i \in 1..Len(run.log) :
        GuardObserved(run, run.log[i])
            => /\ run.log[i].outcome = "guard_skip"
               /\ ~run.log[i].called
               /\ UnitFiles(run, run.log[i].unit) # {}
               /\ UnitDocs(run, run.log[i].unit) = {}
               /\ run.idx > JobIndex(run, run.log[i].unit[1])
               /\ pc # "raised" \/ i < Len(run.log)

\* A committed run that skipped one asset under the guard and then dealt
\* with another.
C10_Witness ==
    /\ Committed(run) /\ pc = "returned"
    /\ \E i \in 1..Len(run.log) :
         /\ GuardObserved(run, run.log[i])
         /\ run.log[i].outcome = "guard_skip"
         /\ i < Len(run.log)
         /\ run.log[i + 1].unit[1] # run.log[i].unit[1]

-----------------------------------------------------------------------------
(* Properties of the request layer (SpecSync)                              *)

\* C2: at most one pipeline job is queued or executing for the Task, and a
\* sync request that arrived while a job was in flight is answered
\* already_syncing.
C2_AtMostOneRunInFlight ==
    /\ InFlight(jobs) <= 1
    /\ \A i \in 1..MaxRequests :
         (reqs[i].kind = "sync" /\ reqs[i].pc = "done" /\ reqs[i].inflight > 0)
             => reqs[i].answer = "already_syncing"

\* C11: every sync request answered queued is eventually followed by the
\* Task's status being completed, or failed with an error text; the Task
\* does not stay syncing forever.
C11_QueuedSyncSettles ==
    \A i \in 1..MaxRequests :
        (reqs[i].kind = "sync" /\ reqs[i].answer = "queued")
            ~> \/ task.sync_status = "completed"
               \/ task.sync_status = "failed" /\ task.sync_error # NoError

\* C23: a batch whose embedding call failed is dropped whole: none of its
\* records is staged as a Chunk or stays in the buffer to be sent again, the
\* buffer never holds a full batch after a step, and the step in which a
\* batch is dropped does not end the run with an error.
C23_FailedBatchDropped ==
    /\ [](pc \in {"ingest", "coldoc", "flush", "commit", "returned"} =>
            /\ \A rec \in run.dropped :
                  /\ ChunkRow(rec) \notin run.chunks
                  /\ rec \notin Range(run.buffer)
            /\ Len(run.buffer) < EMBED_BATCH_SIZE)
    /\ [][run'.dropped # run.dropped => pc' \notin {"raised", "idle"}]_vars

\* A run that lost a batch to a failed embedding call committed, with
\* Chunks of a later batch, and returned done.
C23_Witness ==
    /\ pc = "idle" /\ run.outcome = "completed" /\ run.result = "done" /\ run.dropped # {}
    /\ task.sync_status = "completed"
    /\ \E c \in db.chunks : c.gen = 1 /\ \A rec \in run.dropped : ChunkRow(rec) # c
    /\ \A rec \in run.dropped : ChunkRow(rec) \notin db.chunks

\* C24: within a run the delete of a File's earlier Chunks is issued at
\* most once, every File with a buffered or staged record of the run had it
\* issued, and no step of the run removes a Chunk the run staged.
C24_ChunksClearedOnceBeforeUse ==
    /\ [](/\ \A i, j \in 1..Len(run.deletes) : i # j => run.deletes[i] # run.deletes[j]
          /\ \A rec \in run.generated : \E i \in 1..Len(run.deletes) : run.deletes[i] = rec.file
          /\ \A rec \in Range(run.buffer) : rec \in run.generated)
    /\ [][pc' \in {"ingest", "coldoc", "flush", "commit", "returned"}
            => \A c \in run.chunks : c.gen = 1 => c \in run'.chunks]_vars

\* A File that had Chunks from an earlier run got two batches of Chunks
\* from this run, after one delete.
C24_Witness ==
    /\ pc = "returned"
    /\ \E f \in run.files :
          /\ \E c \in run.pre.chunks : c.file = f.id
          /\ Cardinality({c \in run.chunks : c.file = f.id /\ c.gen = 1}) > EMBED_BATCH_SIZE
          /\ Cardinality({i \in 1..Len(run.deletes) : run.deletes[i] = f.id}) = 1

\* C25: outside the attachment loops of an email no scratch file of an
\* attachment exists: all are removed by the time the email asset is done
\* with, however it ends.
C25_ScratchFilesRemoved ==
    ~(pc = "ingest" /\ run.phase \in {"pdfatt", "imgatt"}) => run.scratch = {}

\* C28: a run for a key the Task table does not hold fails with the 404
\* "Task not found" error before any call to the external work-item system,
\* and neither the run nor the background wrapper's failure handler creates
\* or changes a Task, Snapshot, File or Chunk row or records a status.
C28_UnknownTaskChangesNothing ==
    /\ [][ (pc = "queued" /\ ~run.known)
             => /\ pc' = "raised"
                /\ run'.error = ErrNotFound
                /\ run'.calls = NoCalls
                /\ db' = db /\ task' = task
                /\ run'.snapshots = Aged(db.snapshots)
                /\ run'.files = Aged(db.files)
                /\ run'.chunks = Aged(db.chunks) ]_vars
    /\ [][ (pc = "raised" /\ ~run.known)
             => /\ pc' = "idle"
                /\ db' = db /\ task' = task
                /\ run'.calls = NoCalls ]_vars

\* A run for an unknown key has failed over a database that holds an earlier
\* run's rows, and the known Task still reads completed.
C28_Witness ==
    /\ pc = "idle" /\ ~run.known /\ run.outcome = "failed"
    /\ run.error = ErrNotFound
    /\ run.calls.fetch = 0
    /\ task.sync_status = "completed"
    /\ db.snapshots # {} /\ db.chunks # {}

\* The scenario of C29: a finished run over the item with one PDF and one
\* oversized image, the PDF extraction having returned 500 characters, no
\* batch skipped by the memory guard or lost to an embedding failure.
ScanScenario ==
    /\ pc = "idle" /\ run.outcome = "completed"
    /\ run.fetched = ItemScan
    /\ Len(run.log) = 2
    /\ run.log[1].unit = <<"a1", "">> /\ run.log[1].outcome = "extracted" /\ run.log[1].len = 500
    /\ run.log[2].unit = <<"a2", "">> /\ run.log[2].outcome = "oversize"
    /\ \A g \in run.generated : ChunkRow(g) \in db.chunks

\* The Files of the run's Snapshot are exactly a PDF File of kind pdfKind
\* with a Chunk labelled chunk:1 and an image File of kind imageKind with
\* exactly one Chunk, the placeholder that states the size.
ScanRows(pdfKind, imageKind) ==
    LET fs == {f \in db.files : f.snap = run.snap} IN
    /\ Cardinality(fs) = 2
    /\ \E p \in fs, i \in fs :
         /\ p.asset = AssetKey("a1") /\ p.kind = pdfKind
         /\ i.asset = AssetKey("a2") /\ i.kind = imageKind
         /\ \E c \in db.chunks : c.file = p.id /\ c.label = <<"chunk", "">> /\ c.n = 1
         /\ Cardinality({c \in db.chunks : c.file = i.id}) = 1
         /\ \A c \in db.chunks :
              c.file = i.id => c.text = "too_large" /\ c.label = <<"image:description", "">>
    /\ run.result = "done"

\* C29: for an item with one PDF asset whose extraction returns 500
\* characters and one image asset beyond the image size limit, a run leaves
\* exactly two Files, one of kind pdf with at least one Chunk labelled
\* chunk:1 and one of kind image with exactly one placeholder Chunk stating
\* the size, and finishes with status done.
C29_ScanScenario == ScanScenario => ScanRows("pdf", "image")

\* C29 with the kind the Files get: both carry the kind of their job,
\* "attachment" for assets no file column lists.
C29_ScanScenarioJobKinds == ScanScenario => ScanRows("attachment", "attachment")

\* The scenario has happened.
C29_Witness == ScanScenario /\ run.calls.infer = 1 /\ run.calls.upload = 2

\* The loop iterations of the run for which the extractor was called.
CalledUnits(r) == {i \in 1..Len(r.log) : r.log[i].called}

C36_BufferBelowBatchSize ==
    /\ [](/\ Len(run.buffer) < EMBED_BATCH_SIZE
          /\ pc = "returned" => run.buffer = <<>>)
    /\ [][ pc = "flush" => run'.buffer = <<>> /\ db'.chunks = run'.chunks ]_vars

\* A run that produced three records has committed all three: one full
\* batch flushed at the threshold and the rest by the final flush.
C36_Witness ==
    /\ pc = "returned" /\ run.result = "done" /\ run.buffer = <<>>
    /\ Cardinality(run.generated) = EMBED_BATCH_SIZE + 1
    /\ \A g \in run.generated : ChunkRow(g) \in db.chunks
    /\ run.calls.embed = 2

\* The assets of the item that have no File under the committed Snapshot of
\* the item's fingerprint.
SkippedAssets ==
    LET v == ComputeSnapshotVersion(item)
        hit == {sn.id : sn \in {x \in db.snapshots : x.version = v}}
    IN IF hit = {} THEN {}
       ELSE {id \in v.ids : \A f \in db.files : ~(f.snap \in hit /\ f.asset = AssetKey(id))}

\* C37: a committed Snapshot lacks an asset's File only when the run that
\* committed it was cut short by the hard memory abort; a later run with
\* force = false on the same item then returns unchanged without a download
\* or a loop iteration and leaves the database as it is, and only a forced
\* run changes which assets are missing.
C37_AbortedRunStaysPartial ==
    /\ []((pc = "returned" /\ run.result = "done" /\ SkippedAssets # {}) => run.aborted)
    /\ [][ (pc = "queued" /\ pc' # "raised" /\ run.known /\ ~run.force /\ SkippedAssets # {})
             => /\ pc' = "returned" /\ run'.result = "unchanged"
                /\ run'.log = <<>> /\ run'.calls.download = 0 /\ run'.calls.upload = 0
                /\ db' = db ]_vars
    /\ [][ (db' # db /\ SkippedAssets # {} /\ SkippedAssets' # SkippedAssets) => run.force ]_vars

\* After a run that was cut short, a run with force = false has ended with
\* "unchanged" and an asset of the item is still without a File.
C37_Witness ==
    /\ pc = "idle" /\ run.outcome = "completed" /\ run.result = "unchanged" /\ ~run.force
    /\ SkippedAssets # {}
    /\ db.files # {}

-----------------------------------------------------------------------------
(* SpecGovernor: the rate limiter, services/rate_limiter.py, used by       *)
(* several threads.  Time is in whole seconds and is kept as the time      *)
(* elapsed since the instants the code remembers: age is time.time() -     *)
(* _last_refill, a thread's waited is time.time() - start_time.  An        *)
(* elapsed time is not counted beyond the point where it stops mattering.  *)

\* requests_per_minute and max_concurrent of the instance (8), scaled down.
RequestsPerMinute == 2
MaxConcurrent == 1
\* The timeout passed to wait_for_availability (36), in seconds, scaled down.
WaitTimeout == 3

\* Threads that use the limiter.
Workers == {"w1", "w2"}

\* __init__, 8-14
NewLimiter == [tokens |-> RequestsPerMinute, permits |-> MaxConcurrent, age |-> 0]

\* A slip: _last_refill stays where it was after a refill.
RefilledKeepsClock(l) ==
    LET add == (l.age * RequestsPerMinute) \div 60
    IN IF add > 0
       THEN [l EXCEPT !.tokens = Min(RequestsPerMinute, @ + add)]
       ELSE l

\* The refill at the head of acquire, 18-22
Refilled(l) ==
    LET add == (l.age * RequestsPerMinute) \div 60
    IN IF add > 0
       THEN [l EXCEPT !.tokens = Min(RequestsPerMinute, @ + add), !.age = 0]
       ELSE l

\* A slip: the result of the semaphore's non-blocking acquire is not looked at.
AcquireIgnoresSemaphore(l) ==
    LET l1 == Refilled(l) IN
    IF l1.tokens <= 0 THEN [lim |-> l1, ok |-> FALSE]
    ELSE [lim |-> [l1 EXCEPT !.permits = Max(0, @ - 1), !.tokens = @ - 1], ok |-> TRUE]

\* acquire, 16-31, the whole of it under the lock: the limiter afterwards and
\* the value returned.
Acquire(l) ==
    LET l1 == Refilled(l) IN
    IF l1.tokens <= 0 THEN [lim |-> l1, ok |-> FALSE]
    ELSE IF l1.permits = 0 THEN [lim |-> l1, ok |-> FALSE]
    ELSE [lim |-> [l1 EXCEPT !.permits = @ - 1, !.tokens = @ - 1], ok |-> TRUE]

\* A slip: the token goes back with the slot.
ReleaseReturnsToken(l) == [l EXCEPT !.permits = @ + 1, !.tokens = @ + 1]

\* release, 33-34: threading.Semaphore has no upper bound.
Release(l) == [l EXCEPT !.permits = @ + 1]

\* A slip: the loop polls again without sleeping.
SleepOverAtOnce(slept) == TRUE

\* time.sleep(1), 41, has returned.
SleepOver(slept) == slept >= 1

IdleWorker == [pc |-> "idle", waited |-> 0, slept |-> 0, attempts |-> 0, result |-> ""]

InitGovernor ==
    /\ lim = NewLimiter
    /\ thr = [w \in Workers |-> IdleWorker]
    /\ glob = <<>> /\ fn = <<>>
    /\ item = ItemDocs
    /\ db = [snapshots |-> {}, files |-> {}, chunks |-> {}]
    /\ task = NoTask /\ pc = "idle" /\ run = IdleRun /\ reqs = <<>> /\ jobs = NoJobs

others == <<item, db, task, pc, run, reqs, jobs, glob, fn>>

\* wait_for_availability is called, 37
WaitForAvailability(w) ==
    /\ thr[w].pc = "idle"
    /\ thr' = [thr EXCEPT ![w] = [IdleWorker EXCEPT !.pc = "poll"]]
    /\ UNCHANGED <<lim, others>>

\* One pass of the loop, 38-42: the timeout test, then acquire.
Poll(w) ==
    /\ thr[w].pc = "poll"
    /\ IF ~(thr[w].waited < WaitTimeout)
       THEN /\ thr' = [thr EXCEPT ![w] = [@ EXCEPT !.pc = "idle", !.result = "timeout"]]
            /\ UNCHANGED lim
       ELSE LET a == Acquire(lim) IN
            /\ lim' = a.lim
            /\ thr' = [thr EXCEPT ![w] =
                         IF a.ok
                         THEN [@ EXCEPT !.pc = "holding", !.attempts = @ + 1, !.result = "acquired"]
                         ELSE [@ EXCEPT !.pc = "sleep", !.attempts = @ + 1, !.slept = 0]]
    /\ UNCHANGED others

\* The sleep is over.
Wake(w) ==
    /\ thr[w].pc = "sleep" /\ SleepOver(thr[w].slept)
    /\ thr' = [thr EXCEPT ![w].pc = "poll"]
    /\ UNCHANGED <<lim, others>>

\* The holder of a slot releases it (llm_interface.py 25, 28).
ReleaseSlot(w) ==
    /\ thr[w].pc = "holding"
    /\ lim' = Release(lim)
    /\ thr' = [thr EXCEPT ![w] = [IdleWorker EXCEPT !.result = "released"]]
    /\ UNCHANGED others

\* d seconds pass for a thread inside wait_for_availability.
Later(t, d) ==
    IF t.pc \in {"poll", "sleep"}
    THEN [t EXCEPT !.waited = Min(WaitTimeout, @ + d),
                   !.slept = IF t.pc = "sleep" THEN Min(1, @ + d) ELSE @]
    ELSE t

\* Time passes: a second, or the time one token takes to come back.
Tick ==
    /\ \E d \in {1, 60 \div RequestsPerMinute} :
         /\ lim' = [lim EXCEPT !.age = Min(60, @ + d)]
         /\ thr' = [w \in Workers |-> Later(thr[w], d)]
    /\ UNCHANGED others

NextGovernor ==
    \/ \E w \in Workers : WaitForAvailability(w)
    \/ \E w \in Workers : Poll(w)
    \/ \E w \in Workers : Wake(w)
    \/ \E w \in Workers : ReleaseSlot(w)
    \/ Tick

SpecGovernor == InitGovernor /\ [][NextGovernor]_vars

InFlightCalls == Cardinality({w \in Workers : thr[w].pc = "holding"})

\* C12: the calls in flight never exceed max_concurrent, the semaphore
\* counts exactly the free slots, and the token count stays within
\* 0..requests_per_minute.
C12_LimiterBounds ==
    /\ InFlightCalls <= MaxConcurrent
    /\ lim.permits = MaxConcurrent - InFlightCalls
    /\ lim.tokens >= 0 /\ lim.tokens <= RequestsPerMinute

\* Every slot is taken while another thread has just been refused and
\* sleeps, and the tokens have run out.
C12_Witness ==
    /\ InFlightCalls = MaxConcurrent
    /\ \E w \in Workers : thr[w].pc = "sleep"
    /\ lim.tokens = 0

\* C16: wait_for_availability polls at intervals of at least a second, so
\* it has made at most timeout attempts by the time it gives up; it returns
\* False only once the timeout has elapsed, and True with the slot of the
\* attempt that succeeded.
C16_WaitTerminates ==
    \A w \in Workers :
        /\ thr[w].attempts <= WaitTimeout
        /\ thr[w].pc = "poll" => thr[w].waited >= thr[w].attempts
        /\ thr[w].pc = "sleep" => thr[w].waited >= thr[w].attempts - 1
        /\ thr[w].result = "timeout" => thr[w].pc = "idle" /\ thr[w].waited >= WaitTimeout
        /\ thr[w].result = "acquired" => thr[w].pc = "holding"

\* One wait gave up after polling for the whole timeout while another got
\* its slot on a later attempt than its first.
C16_Witness ==
    \E w, v \in Workers :
        /\ thr[w].result = "timeout" /\ thr[w].attempts = WaitTimeout
        /\ thr[v].result = "acquired" /\ thr[v].attempts > 1

\* C34: acquire returns without letting time pass; it returns True exactly
\* when, after the refill, a token is left and fewer than max_concurrent
\* calls are in flight, and then takes one token and one slot; when it
\* returns False it takes neither; release frees one slot and leaves the
\* tokens alone.
C34_AcquireRelease ==
    [][ \A w \in Workers :
          LET add == (lim.age * RequestsPerMinute) \div 60
              t == IF add > 0 THEN Min(RequestsPerMinute, lim.tokens + add) ELSE lim.tokens
          IN /\ (thr[w].pc = "poll" /\ thr'[w].attempts = thr[w].attempts + 1)
                  => /\ (thr'[w].pc = "holding") <=> (t >= 1 /\ InFlightCalls < MaxConcurrent)
                     /\ thr'[w].pc = "holding"
                          => lim'.tokens = t - 1 /\ lim'.permits = lim.permits - 1
                     /\ thr'[w].pc # "holding"
                          => lim'.tokens = t /\ lim'.permits = lim.permits
                     /\ thr'[w].waited = thr[w].waited
                     /\ lim'.age \in {lim.age, 0}
             /\ (thr[w].pc = "holding" /\ thr'[w].pc # "holding")
                  => /\ lim'.permits = lim.permits + 1
                     /\ lim'.tokens = lim.tokens
                     /\ lim'.age = lim.age
      ]_vars

\* A thread has just been refused for want of a slot while a token was left;
\* the holder of the slot got it after waiting.
C34_Witness ==
    /\ InFlightCalls = MaxConcurrent /\ lim.tokens >= 1
    /\ \E w \in Workers : thr[w].pc = "sleep" /\ thr[w].slept = 0 /\ thr[w].attempts >= 1
    /\ \E w \in Workers : thr[w].pc = "holding" /\ thr[w].waited >= 1

-----------------------------------------------------------------------------
(* SpecSingleton: get_rate_limiter, rate_limiter.py 44-50, called by       *)
(* several threads (the page workers of pdf_extraction.py 46, concurrent   *)
(* background jobs).  An instance is named by the order of its creation;   *)
(* the interpreter may switch threads between any two of the steps.        *)

Callers == {"t1", "t2", "t3"}

\* _rate_limiter = None, 44
None == 0

NotCalling == [pc |-> "out", new |-> None, got |-> None]

InitSingleton ==
    /\ glob = [rate_limiter |-> None, made |-> 0]
    /\ thr = [t \in Callers |-> NotCalling]
    /\ lim = NewLimiter /\ fn = <<>>
    /\ item = ItemDocs
    /\ db = [snapshots |-> {}, files |-> {}, chunks |-> {}]
    /\ task = NoTask /\ pc = "idle" /\ run = IdleRun /\ reqs = <<>> /\ jobs = NoJobs

apart == <<item, db, task, pc, run, reqs, jobs, lim, fn>>

\* get_rate_limiter() is called, 46
GetRateLimiter(t) ==
    /\ thr[t].pc = "out"
    /\ thr' = [thr EXCEPT ![t] = [NotCalling EXCEPT !.pc = "test"]]
    /\ UNCHANGED <<glob, apart>>

\* if _rate_limiter is None, 48
TestNone(t) ==
    /\ thr[t].pc = "test"
    /\ thr' = [thr EXCEPT ![t].pc = IF glob.rate_limiter = None THEN "create" ELSE "return"]
    /\ UNCHANGED <<glob, apart>>

\* GlobalGeminiRateLimiter(), 49, right-hand side
Create(t) ==
    /\ thr[t].pc = "create"
    /\ glob' = [glob EXCEPT !.made = @ + 1]
    /\ thr' = [thr EXCEPT ![t].pc = "store", ![t].new = glob.made + 1]
    /\ UNCHANGED apart

\* _rate_limiter = .., 49, the assignment
Store(t) ==
    /\ thr[t].pc = "store"
    /\ glob' = [glob EXCEPT !.rate_limiter = thr[t].new]
    /\ thr' = [thr EXCEPT ![t].pc = "return"]
    /\ UNCHANGED apart

\* return _rate_limiter, 50
Return(t) ==
    /\ thr[t].pc = "return"
    /\ thr' = [thr EXCEPT ![t].pc = "out", ![t].got = glob.rate_limiter]
    /\ UNCHANGED <<glob, apart>>

NextSingleton ==
    \/ \E t \in Callers : GetRateLimiter(t)
    \/ \E t \in Callers : TestNone(t)
    \/ \E t \in Callers : Create(t)
    \/ \E t \in Callers : Store(t)
    \/ \E t \in Callers : Return(t)

SpecSingleton == InitSingleton /\ [][NextSingleton]_vars

\* C13: all callers of get_rate_limiter get the same instance, whatever the
\* interleaving of their first calls.
C13_SameInstance ==
    \A t, u \in Callers :
        thr[t].got # None /\ thr[u].got # None => thr[t].got = thr[u].got

-----------------------------------------------------------------------------
(* SpecRetry: gemini_api_with_retry, llm_interface.py 14-37, run by two    *)
(* threads over one limiter.  A sleep is recorded by its length, in tenths *)
(* of a second; how long a thread waits for a slot is not measured: the    *)
(* wait ends with a slot or with the timeout.                              *)

\* Defaults of the parameters, 14
max_retries == 5
initial_backoff == 5

Clients == {"c1", "c2"}

\* What generate_content can raise: str(e) of three exceptions.
ApiErrors == {"429", "RESOURCE_EXHAUSTED", "503"}

\* is_rate_limit_error, 11-12
IsRateLimitError(e) == e \in {"429", "RESOURCE_EXHAUSTED", "RATE_LIMIT"}

\* A slip: the last allowed attempt is retried as well.
MayRetryOnLast(e, retries) == IsRateLimitError(e) /\ retries <= max_retries

\* A slip: every error is retried while attempts are left.
MayRetryAnyError(e, retries) == retries < max_retries

\* The test of line 29
MayRetry(e, retries) == IsRateLimitError(e) /\ retries < max_retries

\* base_sleep, 30, in tenths of a second
BaseSleep(retries) == initial_backoff * (2 ^ retries) * 10

\* random.uniform(0, base_sleep * 0.1), 31: both ends and the middle
Jitters(base) == {0, base \div 20, base \div 10}

\* A slip: the slot is not released.
KeepSlot(s) == s

\* rate_limiter.release(), 25 and 28, by the thread whose record is s.c
ReleaseOwn(s) == [lim |-> Release(s.lim), c |-> [s.c EXCEPT !.held = @ - 1]]

NotInCall ==
    [pc |-> "out", retries |-> 0, calls |-> 0, held |-> 0, slept |-> 0, result |-> "", last |-> ""]

InitRetry ==
    /\ lim = NewLimiter
    /\ thr = [c \in Clients |-> NotInCall]
    /\ glob = <<>> /\ fn = <<>>
    /\ item = ItemDocs
    /\ db = [snapshots |-> {}, files |-> {}, chunks |-> {}]
    /\ task = NoTask /\ pc = "idle" /\ run = IdleRun /\ reqs = <<>> /\ jobs = NoJobs

\* gemini_api_with_retry is called, 14-17
GeminiApiWithRetry(c) ==
    /\ thr[c].pc = "out"
    /\ thr' = [thr EXCEPT ![c] = [NotInCall EXCEPT !.pc = "loop"]]
    /\ UNCHANGED <<lim, others>>

\* while retries <= max_retries, 19, and the raise after the loop, 37
LoopTest(c) ==
    /\ thr[c].pc = "loop"
    /\ thr' = [thr EXCEPT ![c] =
                 IF thr[c].retries <= max_retries
                 THEN [@ EXCEPT !.pc = "wait"]
                 ELSE [@ EXCEPT !.pc = "out", !.result = "Failed after retries"]]
    /\ UNCHANGED <<lim, others>>

\* wait_for_availability, 20-21: it returns True with a slot, or False
WaitForSlot(c) ==
    /\ thr[c].pc = "wait"
    /\ LET a == Acquire(lim) IN
       /\ lim' = a.lim
       /\ thr' = [thr EXCEPT ![c] =
                    IF a.ok
                    THEN [@ EXCEPT !.pc = "call", !.held = @ + 1]
                    ELSE [@ EXCEPT !.pc = "out", !.result = "Could not acquire"]]
    /\ UNCHANGED others

\* generate_content returns, 24-26
CallReturns(c) ==
    /\ thr[c].pc = "call"
    /\ LET s == ReleaseOwn([lim |-> lim, c |-> [thr[c] EXCEPT !.calls = @ + 1]]) IN
       /\ lim' = s.lim
       /\ thr' = [thr EXCEPT ![c] = [s.c EXCEPT !.pc = "out", !.result = "response"]]
    /\ UNCHANGED others

\* generate_content raises e, 27-35
CallRaises(c) ==
    /\ thr[c].pc = "call"
    /\ \E e \in ApiErrors :
         LET s == ReleaseOwn([lim |-> lim,
                              c |-> [thr[c] EXCEPT !.calls = @ + 1, !.last = e]]) IN
         /\ lim' = s.lim
         /\ IF MayRetry(e, s.c.retries)
            THEN \E j \in Jitters(BaseSleep(s.c.retries)) :
                   thr' = [thr EXCEPT ![c] =
                             [s.c EXCEPT !.pc = "sleep", !.slept = BaseSleep(s.c.retries) + j]]
            ELSE thr' = [thr EXCEPT ![c] = [s.c EXCEPT !.pc = "out", !.result = e]]
    /\ UNCHANGED others

\* time.sleep returns; retries += 1; continue, 32-34
SleepReturns(c) ==
    /\ thr[c].pc = "sleep"
    /\ thr' = [thr EXCEPT ![c] = [@ EXCEPT !.pc = "loop", !.retries = @ + 1]]
    /\ UNCHANGED <<lim, others>>

\* A minute passes.
Minute ==
    /\ lim.age < 60
    /\ lim' = [lim EXCEPT !.age = 60]
    /\ UNCHANGED <<thr, others>>

NextRetry ==
    \/ \E c \in Clients : GeminiApiWithRetry(c)
    \/ \E c \in Clients : LoopTest(c)
    \/ \E c \in Clients : WaitForSlot(c)
    \/ \E c \in Clients : CallReturns(c)
    \/ \E c \in Clients : CallRaises(c)
    \/ \E c \in Clients : SleepReturns(c)
    \/ Minute

SpecRetry == InitRetry /\ [][NextRetry]_vars

\* C14: a thread holds one slot exactly while its inference call is in
\* progress: none while it sleeps, tests the loop or waits, none after it
\* has returned or raised, and never fewer than none.
C14_SlotReleasedOnce ==
    /\ \A c \in Clients : thr[c].held = (IF thr[c].pc = "call" THEN 1 ELSE 0)
    /\ lim.permits = MaxConcurrent - Cardinality({c \in Clients : thr[c].pc = "call"})

\* A thread sleeps for backoff after a failed call while the other thread
\* is in a call with the slot the first gave back.
C14_Witness ==
    \E c, d \in Clients :
        /\ thr[c].pc = "sleep" /\ thr[c].calls > 0 /\ thr[c].held = 0
        /\ thr[d].pc = "call" /\ thr[d].retries > 0

\* C15: at most max_retries + 1 calls; the sleep after the rate-limit
\* failure of attempt n < max_retries lasts between initial_backoff * 2^n
\* and 1.1 times that; the rate-limit error of the last allowed attempt is
\* the error raised.
C15_BoundedRetries ==
    \A c \in Clients :
        /\ thr[c].calls <= max_retries + 1
        /\ thr[c].retries <= max_retries
        /\ thr[c].pc = "sleep" =>
              /\ thr[c].retries < max_retries /\ thr[c].calls = thr[c].retries + 1
              /\ IsRateLimitError(thr[c].last)
              /\ 10 * thr[c].slept >= 10 * initial_backoff * (2 ^ thr[c].retries) * 10
              /\ 10 * thr[c].slept <= 11 * initial_backoff * (2 ^ thr[c].retries) * 10
        /\ (thr[c].pc = "out" /\ thr[c].calls = max_retries + 1 /\ thr[c].result # "response")
              => thr[c].result = thr[c].last
        /\ thr[c].result # "Failed after retries"

\* The sixth call failed with a rate-limit error, which was raised, after
\* the longest sleep with the whole jitter.
C15_Witness ==
    \E c \in Clients :
        /\ thr[c].pc = "out" /\ thr[c].calls = max_retries + 1
        /\ IsRateLimitError(thr[c].result)
        /\ thr[c].slept = 11 * initial_backoff * (2 ^ (max_retries - 1))

\* C33: a call that fails with an error that is not a rate-limit error ends
\* gemini_api_with_retry at once with that error, without a sleep and without
\* another attempt; and when no slot is to be had, gemini_api_with_retry ends
\* with "Could not acquire" without an inference call in that attempt and
\* without holding a slot.  A call that has ended makes no further call.
C33_FailsWithoutRetry ==
    [][ \A c \in Clients :
          /\ (thr[c].pc = "call" /\ thr'[c].pc # "call" /\ thr'[c].result # "response"
                /\ ~IsRateLimitError(thr'[c].last))
               => /\ thr'[c].pc = "out"
                  /\ thr'[c].result = thr'[c].last
                  /\ thr'[c].calls = thr[c].calls + 1
                  /\ thr'[c].slept = thr[c].slept
                  /\ thr'[c].retries = thr[c].retries
                  /\ thr'[c].held = 0
          /\ (thr[c].pc = "wait" /\ thr'[c].pc = "out")
               => /\ thr'[c].result = "Could not acquire"
                  /\ thr'[c].calls = thr[c].calls
                  /\ thr'[c].held = 0
                  /\ lim'.permits = lim.permits
          /\ (thr[c].pc = "out" /\ thr'[c].pc = "out") => thr'[c] = thr[c]
      ]_vars

\* One caller got a 503 on its second attempt, after a rate-limit error and
\* a sleep; the other found no slot and made no call.
C33_Witness ==
    \E c, d \in Clients :
        /\ thr[c].pc = "out" /\ thr[c].result = "503" /\ thr[c].calls = 2 /\ thr[c].retries = 1
        /\ thr[d].pc = "out" /\ thr[d].result = "Could not acquire" /\ thr[d].calls = 0

-----------------------------------------------------------------------------
(* SpecFn: the pure helpers, each applied to inputs drawn from a bounded   *)
(* set.  fn holds the function applied, its arguments and its result.      *)

\* Longest text and largest window size tried by the chunker.
MaxTextLen == 7
MaxChunkSize == 4

(* compute_snapshot_version, storage_ingest.py 38-49, character by         *)
(* character.  A string is the sequence of its characters; a field that    *)
(* may be null is [some, val].  Items are as the work-management API       *)
(* returns them (monday_client.py 40-75): ids are non-empty strings of     *)
(* digits, updated_at is a timestamp or null.                              *)

Null == [some |-> FALSE, val |-> <<>>]
Str(cs) == [some |-> TRUE, val |-> cs]

\* Code points of the characters used.
Ord(ch) ==
    CASE ch = "," -> 44 [] ch = "1" -> 49 [] ch = "2" -> 50 [] ch = "7" -> 55 [] ch = ":" -> 58

\* Python's < on str
RECURSIVE StrLess(_, _)
StrLess(a, b) ==
    IF a = <<>> THEN b # <<>>
    ELSE IF b = <<>> THEN FALSE
    ELSE IF Head(a) = Head(b) THEN StrLess(Tail(a), Tail(b))
    ELSE Ord(Head(a)) < Ord(Head(b))

\* sorted(..) of a set of strings
RECURSIVE SortedSeq(_)
SortedSeq(S) ==
    IF S = {} THEN <<>>
    ELSE LET m == CHOOSE x \in S : \A y \in S \ {x} : StrLess(x, y)
         IN <<m>> \o SortedSeq(S \ {m})

\* A slip: the parts are put together with nothing between them.
RECURSIVE JoinNoSep(_, _)
JoinNoSep(parts, sep) ==
    IF parts = <<>> THEN <<>> ELSE Head(parts) \o JoinNoSep(Tail(parts), sep)

\* sep.join(parts)
RECURSIVE Join(_, _)
Join(parts, sep) ==
    IF parts = <<>> THEN <<>>
    ELSE IF Len(parts) = 1 THEN Head(parts)
    ELSE Head(parts) \o sep \o Join(Tail(parts), sep)

\* The ids the two loops add, 41-47, in the order they meet them
RECURSIVE IdsOf(_)
IdsOf(assets) ==
    IF assets = <<>> THEN <<>>
    ELSE (IF Head(assets).id.some THEN <<Head(assets).id.val>> ELSE <<>>) \o IdsOf(Tail(assets))

\* A slip: the ids are kept as listed, neither as a set nor sorted.
IdsAsListed(ids) == ids

\* sorted(asset_ids), asset_ids being a set, 40 and 48
SortedIds(ids) == SortedSeq(Range(ids))

\* The seed string, 39-48
Seed(it) ==
    LET updated_at == IF it.updated_at.some THEN it.updated_at.val ELSE <<>>
        asset_ids == IdsOf(it.assets) \o IdsOf(Flatten(it.updates))
    IN updated_at \o <<":">> \o Join(SortedIds(asset_ids), <<",">>)

\* Items the fingerprint is computed for; MaxListed is the longest list of
\* primary assets tried, an item has at most one update there.
MaxListed == 2
RawAsset(id, name) == [id |-> id, name |-> name]
RawAssets ==
    {RawAsset(Str(<<"1">>), "a"), RawAsset(Str(<<"1">>), "b"), RawAsset(Str(<<"2">>), "a"),
     RawAsset(Str(<<"1", "2">>), "a"), RawAsset(Null, "a")}
ListsOf(S, n) == UNION {[1..k -> S] : k \in 0..n}
RawItems ==
    [updated_at : {Null, Str(<<"7">>), Str(<<"7", ":", "1">>)},
     assets : ListsOf(RawAssets, MaxListed),
     updates : {<<>>} \cup {<<u>> : u \in ListsOf(RawAssets, 1)}]

\* Items _collect_asset_jobs is applied to: primary assets are PDFs, update
\* assets images; "" is the id of an asset that has none.
JobIds == {"", "7", "8"}
JobItems ==
    [item_id : {"i1"}, updated_at : {1}, columns : {0},
     assets : ListsOf({Asset(id, "pdf", 1 * MB) : id \in JobIds}, MaxListed),
     updates : ListsOf(ListsOf({Asset(id, "png", 1 * MB) : id \in JobIds}, 1), 2),
     kinds : {[x \in {} |-> ""], [x \in {"7"} |-> "drawings"]}]

CollectCalls ==
    {[op |-> "collect", item |-> it, done |-> FALSE, out |-> <<>>, files |-> {}] : it \in JobItems}

\* should_batch_pdfs, pdf_extraction.py 12-16, on the content sizes of the
\* files, in bytes.
MAX_BATCH_SIZE == 100 * MB
MAX_FILES_PER_BATCH == 3

RECURSIVE Sum(_)
Sum(sizes) == IF sizes = <<>> THEN 0 ELSE Head(sizes) + Sum(Tail(sizes))

\* A slip: a total of exactly MAX_BATCH_SIZE is refused.
ShouldBatchBelowLimit(sizes) ==
    Sum(sizes) < MAX_BATCH_SIZE /\ Len(sizes) <= MAX_FILES_PER_BATCH /\ Len(sizes) > 1

ShouldBatchPdfs(sizes) ==
    Sum(sizes) <= MAX_BATCH_SIZE /\ Len(sizes) <= MAX_FILES_PER_BATCH /\ Len(sizes) > 1

\* Lists of PDF files tried: up to MaxPdfFiles files of these sizes.
MaxPdfFiles == 4
PdfSizes == {0, 1, 50 * MB, 50 * MB + 1, 100 * MB, 100 * MB + 1}
PdfBatchCalls ==
    {[op |-> "should_batch", sizes |-> ss, done |-> FALSE, batch |-> FALSE] :
        ss \in ListsOf(PdfSizes, MaxPdfFiles)}

\* The CSV branch, sync_pipeline.py 354-377, on the header row of the file.
\* _normalize_header, 59-60: strip and lower, on the column names tried.
NormalizeHeader(name) ==
    CASE name = "Parameter" -> "parameter"
      [] name = " value " -> "value"
      [] name = "SOURCE" -> "source"
      [] OTHER -> name

\* _parse_key_value_csv, 71-75: the format it settles on, "table" standing
\* for the ValueError that sends the caller to _parse_generic_csv.
CsvFormat(header) ==
    IF {"parameter", "value", "source"} \subseteq {NormalizeHeader(header[i]) : i \in 1..Len(header)}
    THEN "key_value" ELSE "table"

\* Header rows tried: up to MaxColumns of these column names.
MaxColumns == 4
ColumnNames == {"Parameter", " value ", "SOURCE", "source", "notes"}
CsvCalls ==
    {[op |-> "csv", header |-> h, done |-> FALSE, out |-> <<>>] :
        h \in ListsOf(ColumnNames, MaxColumns)}

\* The calls made: the function and its arguments, the result still to come.
ChunkCalls ==
    {[op |-> "chunk", len |-> len, size |-> sz[1], overlap |-> sz[2], done |-> FALSE, out |-> <<>>] :
        len \in 0..MaxTextLen,
        sz \in {p \in (1..MaxChunkSize) \X (0..MaxChunkSize) : p[2] < p[1]}}
FingerprintCalls == {[op |-> "fingerprint", item |-> it, done |-> FALSE, out |-> <<>>] : it \in RawItems}

InitFn ==
    /\ fn \in ChunkCalls \cup FingerprintCalls \cup CollectCalls \cup PdfBatchCalls \cup CsvCalls
    /\ lim = <<>> /\ thr = <<>> /\ glob = <<>>
    /\ item = ItemDocs
    /\ db = [snapshots |-> {}, files |-> {}, chunks |-> {}]
    /\ task = NoTask /\ pc = "idle" /\ run = IdleRun /\ reqs = <<>> /\ jobs = NoJobs

unused == <<item, db, task, pc, run, reqs, jobs, lim, thr, glob>>

\* _chunk_text returns.
ChunkTextCall ==
    /\ fn.op = "chunk" /\ ~fn.done
    /\ fn' = [fn EXCEPT !.done = TRUE, !.out = ChunkTextWith(fn.len, fn.size, fn.overlap)]
    /\ UNCHANGED unused

\* compute_snapshot_version returns.
ComputeSnapshotVersionCall ==
    /\ fn.op = "fingerprint" /\ ~fn.done
    /\ fn' = [fn EXCEPT !.done = TRUE, !.out = Seed(fn.item)]
    /\ UNCHANGED unused

\* ingest_asset for each job in turn, as a run that reaches every asset does.
RECURSIVE IngestJobs(_, _)
IngestJobs(r, js) ==
    IF js = <<>> THEN r
    ELSE IngestJobs(IngestAsset(r, Head(js), Head(js).asset.size), Tail(js))

\* _collect_asset_jobs returns, and its jobs are ingested.
CollectAssetJobsCall ==
    /\ fn.op = "collect" /\ ~fn.done
    /\ LET js == CollectAssetJobs(fn.item) IN
       fn' = [fn EXCEPT !.done = TRUE, !.out = js,
                 !.files = IngestJobs([files |-> {}, snap |-> "v1", calls |-> [upload |-> 0]], js).files]
    /\ UNCHANGED unused

\* should_batch_pdfs returns.
ShouldBatchPdfsCall ==
    /\ fn.op = "should_batch" /\ ~fn.done
    /\ fn' = [fn EXCEPT !.done = TRUE, !.batch = ShouldBatchPdfs(fn.sizes)]
    /\ UNCHANGED unused

\* The CSV branch is through with an asset, 354-377: out is csv_params,
\* one entry appended in the try or in the except.
CsvAssetParsed ==
    /\ fn.op = "csv" /\ ~fn.done
    /\ fn' = [fn EXCEPT !.done = TRUE, !.out = Append(@, [format |-> CsvFormat(fn.header)])]
    /\ UNCHANGED unused

NextFn ==
    \/ ChunkTextCall
    \/ ComputeSnapshotVersionCall
    \/ CollectAssetJobsCall
    \/ ShouldBatchPdfsCall
    \/ CsvAssetParsed

SpecFn == InitFn /\ [][NextFn]_vars

\* C17: _chunk_text returns no window for an empty text, the one window
\* [0, L) for a text no longer than the size, and otherwise windows from 0
\* to L, each of the full size but possibly the last, each starting exactly
\* the overlap before the end of the one before; never more windows than
\* characters, never an empty window, never a window inside the one before.
C17_ChunkWindows ==
    (fn.op = "chunk" /\ fn.done) =>
        LET w == fn.out
            L == fn.len
            S == fn.size
            O == fn.overlap
        IN /\ L = 0 => w = <<>>
           /\ (0 < L /\ L <= S) => w = <<[start |-> 0, end |-> L]>>
           /\ L > S =>
                /\ Len(w) >= 2
                /\ w[1].start = 0
                /\ w[Len(w)].end = L
                /\ \A i \in 1..(Len(w) - 1) :
                      /\ w[i].end - w[i].start = S
                      /\ w[i + 1].start = w[i].end - O
           /\ Len(w) <= L
           /\ \A i \in 1..Len(w) : w[i].start < w[i].end /\ w[i].end - w[i].start <= S
           /\ \A i \in 1..(Len(w) - 1) : w[i].start < w[i + 1].start /\ w[i].end < w[i + 1].end

\* A text whose length is a multiple of size - overlap, longer than the
\* size, cut with a positive overlap into three windows.
C17_Witness ==
    /\ fn.op = "chunk" /\ fn.done /\ fn.overlap > 0 /\ fn.len > fn.size
    /\ fn.len % (fn.size - fn.overlap) = 0
    /\ Len(fn.out) = 3

\* What the fingerprint is said to depend on, and the seeds of all the
\* items that agree on it.
IdSet(it) == {a.id.val : a \in {x \in Range(it.assets \o Flatten(it.updates)) : x.id.some}}
KeyOf(it) == <<it.updated_at, IdSet(it)>>
Keys == {KeyOf(it) : it \in RawItems}
SeedsOfKey == [k \in Keys |-> {Seed(it) : it \in {x \in RawItems : KeyOf(x) = k}}]

\* C18: items with the same updated_at and the same set of asset ids get
\* the same seed, whatever the order, the repetition, the place (primary
\* or update) and the other fields of their assets.
C18_SameInputsSameSeed ==
    (fn.op = "fingerprint" /\ fn.done) => SeedsOfKey[KeyOf(fn.item)] = {fn.out}

\* An item that lists id 2 before id 1, id 1 twice over its assets and its
\* update, under two names.
C18_Witness ==
    /\ fn.op = "fingerprint" /\ fn.done
    /\ fn.item.assets = <<RawAsset(Str(<<"2">>), "a"), RawAsset(Str(<<"1">>), "b")>>
    /\ fn.item.updates = << <<RawAsset(Str(<<"1">>), "a")>> >>
    /\ fn.out = <<"7", ":", "1", ",", "2">>

\* C19: items that differ in updated_at or in their set of asset ids get
\* different seeds.
C19_DifferentInputsDifferentSeed ==
    (fn.op = "fingerprint" /\ fn.done) =>
        \A k \in Keys \ {KeyOf(fn.item)} : fn.out \notin SeedsOfKey[k]

\* An item with the ids 1 and 2, where another has the id 12, and with a
\* colon in its timestamp.
C19_Witness ==
    /\ fn.op = "fingerprint" /\ fn.done
    /\ IdSet(fn.item) = {<<"1">>, <<"2">>}
    /\ fn.item.updated_at = Str(<<"7", ":", "1">>)
    /\ fn.out = <<"7", ":", "1", ":", "1", ",", "2">>

\* The assets of an item in the order _collect_asset_jobs meets them, and
\* the place where an id is met first.
Listed(it) == it.assets \o Flatten(it.updates)
FirstSeen(it, id) ==
    CHOOSE i \in 1..Len(Listed(it)) :
        Listed(it)[i].id = id /\ \A j \in 1..(i - 1) : Listed(it)[j].id # id

\* C20: one job per distinct asset id, in the order the ids are first met;
\* the job carries the first occurrence and its kind (the column kind or
\* "attachment" for a primary asset, "update_attachment" otherwise), and
\* ingesting the jobs leaves exactly one File per id.
C20_OneJobPerAssetId ==
    (fn.op = "collect" /\ fn.done) =>
        LET it == fn.item
            js == fn.out
        IN /\ {js[i].asset.id : i \in 1..Len(js)} = {a.id : a \in Range(Listed(it))} \ {""}
           /\ \A i, j \in 1..Len(js) :
                 i < j => /\ js[i].asset.id # js[j].asset.id
                          /\ FirstSeen(it, js[i].asset.id) < FirstSeen(it, js[j].asset.id)
           /\ \A i \in 1..Len(js) :
                 LET id == js[i].asset.id
                     k == FirstSeen(it, id)
                 IN /\ js[i].asset = Listed(it)[k]
                    /\ js[i].kind = (IF k <= Len(it.assets)
                                     THEN (IF id \in DOMAIN it.kinds THEN it.kinds[id] ELSE "attachment")
                                     ELSE "update_attachment")
                    /\ Cardinality({f \in fn.files : f.asset = AssetKey(id)}) = 1
                    /\ \A f \in fn.files : f.asset = AssetKey(id) => f.kind = js[i].kind
           /\ Cardinality(fn.files) = Len(js)

\* Id 7 is a primary asset with a column kind and comes again in an update,
\* after id 8 of an earlier update.
C20_Witness ==
    /\ fn.op = "collect" /\ fn.done
    /\ fn.item.assets = <<Asset("7", "pdf", 1 * MB)>>
    /\ fn.item.updates = << <<Asset("8", "png", 1 * MB)>>, <<Asset("7", "png", 1 * MB)>> >>
    /\ Len(fn.out) = 2
    /\ fn.out[1].kind = "drawings" /\ fn.out[1].asset.ext = "pdf"
    /\ fn.out[2].kind = "update_attachment"
    /\ Cardinality(fn.files) = 2

-----------------------------------------------------------------------------
(* SpecPool: process_items_in_parallel, thread_pool.py 4-24, as            *)
(* extract_email_sections calls it (email_extraction.py 282): every item   *)
(* is a dict with a filename.  thr is the state of each future, fn the     *)
(* call: its items, the results appended so far, and whether it returned.  *)

\* Longest list of items tried, and max_workers (15 at the call), scaled down.
MaxItems == 3
MaxPoolWorkers == 2

\* An item: its filename, its content, and whether process_func raises for it.
VisualItems == [filename : {"a.pdf", "b.png"}, content : {"x", "y"}, fails : BOOLEAN]

\* What process_func returns for an item (270-280), or the placeholder of
\* the except branch (15-22); of is the position of the item in the input.
ResultFor(it, i) ==
    IF it.fails
    THEN [filename |-> it.filename, text |-> <<"Error processing", it.filename, "boom">>, of |-> i]
    ELSE [filename |-> it.filename, text |-> <<"text of", it.filename, it.content>>, of |-> i]

\* A slip: the except branch appends nothing.
CollectedUnlessFailed(results, it, i) ==
    IF it.fails THEN results ELSE Append(results, ResultFor(it, i))

\* results.append((filename, text)), 23
Collected(results, it, i) == Append(results, ResultFor(it, i))

InitPool ==
    /\ \E n \in 1..MaxItems : \E its \in [1..n -> VisualItems] :
         /\ fn = [op |-> "parallel", items |-> its, results |-> <<>>, returned |-> FALSE]
         /\ thr = [i \in 1..n |-> "queued"]
    /\ lim = <<>> /\ glob = <<>>
    /\ item = ItemDocs
    /\ db = [snapshots |-> {}, files |-> {}, chunks |-> {}]
    /\ task = NoTask /\ pc = "idle" /\ run = IdleRun /\ reqs = <<>> /\ jobs = NoJobs

beside == <<item, db, task, pc, run, reqs, jobs, lim, glob>>

Running == {i \in DOMAIN thr : thr[i] = "running"}

\* A worker of the pool takes the next submitted item, 6-10: the pool has
\* min(max_workers, len(items)) threads and a first-in first-out queue.
WorkerStarts(i) ==
    /\ thr[i] = "queued"
    /\ \A j \in 1..(i - 1) : thr[j] # "queued"
    /\ Cardinality(Running) < Min(MaxPoolWorkers, Len(fn.items))
    /\ thr' = [thr EXCEPT ![i] = "running"]
    /\ UNCHANGED <<fn, beside>>

\* process_func ends for item i, by return or by exception; as_completed
\* yields its future and the loop body appends its result, 11-23.
FutureCompletes(i) ==
    /\ thr[i] = "running"
    /\ thr' = [thr EXCEPT ![i] = "done"]
    /\ fn' = [fn EXCEPT !.results = Collected(@, fn.items[i], i)]
    /\ UNCHANGED beside

\* return results, 24
PoolReturns ==
    /\ ~fn.returned
    /\ \A i \in DOMAIN thr : thr[i] = "done"
    /\ fn' = [fn EXCEPT !.returned = TRUE]
    /\ UNCHANGED <<thr, beside>>

NextPool ==
    \/ \E i \in DOMAIN thr : WorkerStarts(i)
    \/ \E i \in DOMAIN thr : FutureCompletes(i)
    \/ PoolReturns

SpecPool == InitPool /\ [][NextPool]_vars

\* C21: the results process_items_in_parallel returns are in the order of
\* the items.
C21_ResultsInInputOrder ==
    fn.returned => \A k \in 1..Len(fn.results) : fn.results[k].of = k

\* C22: process_items_in_parallel returns one result per item: the text of
\* the item, or the placeholder with its filename and the error when
\* process_func raised for it; an item that failed changes no other result.
C22_OneResultPerItem ==
    /\ Len(fn.results) <= Len(fn.items)
    /\ \A k \in 1..Len(fn.results) :
          LET i == fn.results[k].of IN
          /\ i \in 1..Len(fn.items) /\ thr[i] = "done"
          /\ fn.results[k].filename = fn.items[i].filename
          /\ fn.results[k].text =
                (IF fn.items[i].fails
                 THEN <<"Error processing", fn.items[i].filename, "boom">>
                 ELSE <<"text of", fn.items[i].filename, fn.items[i].content>>)
    /\ fn.returned =>
          /\ Len(fn.results) = Len(fn.items)
          /\ \A i \in 1..Len(fn.items) : \E k \in 1..Len(fn.results) : fn.results[k].of = i

\* Three items, the second of which failed, have been returned out of order.
C22_Witness ==
    /\ fn.returned /\ Len(fn.items) = 3
    /\ fn.items[2].fails /\ ~fn.items[1].fails /\ ~fn.items[3].fails
    /\ fn.results[1].of = 2 /\ fn.results[2].of = 1

\* C26: should_batch_pdfs is true exactly for two or three files of at
\* most 104857600 bytes together.
C26_BatchDecision ==
    (fn.op = "should_batch" /\ fn.done) =>
        LET n == Len(fn.sizes)
            total == IF n = 0 THEN 0
                     ELSE IF n = 1 THEN fn.sizes[1]
                     ELSE IF n = 2 THEN fn.sizes[1] + fn.sizes[2]
                     ELSE fn.sizes[1] + fn.sizes[2] + fn.sizes[3] + Sum(SubSeq(fn.sizes, 4, n))
        IN fn.batch <=> (n \in {2, 3} /\ total <= 104857600)

\* Two files of 50 MB each, 100 MB together, are batched.
C26_Witness ==
    /\ fn.op = "should_batch" /\ fn.done /\ fn.batch
    /\ fn.sizes = <<50 * MB, 50 * MB>>

\* C27: a CSV asset is read as key/value exactly when its header row,
\* trimmed and lower-cased, is made of the three columns parameter, value
\* and source and no other; it leaves one entry in csv_params.
C27_KeyValueOnlyForExactHeader ==
    (fn.op = "csv" /\ fn.done) =>
        /\ Len(fn.out) = 1
        /\ fn.out[1].format = "key_value" <=>
              /\ Len(fn.header) = 3
              /\ {NormalizeHeader(fn.header[i]) : i \in 1..3} = {"parameter", "value", "source"}

-----------------------------------------------------------------------------
(* SpecRuns: several background jobs for the same Task, each with its own  *)
(* session (run_sync_pipeline_background 947), over the committed          *)
(* task_snapshots table.  The table has a primary key on id and no other   *)
(* constraint (migrations/versions/0002_create_task_tables.py 36-48); a    *)
(* session sees the rows committed by the others and its own.  A row's     *)
(* created_at is now() of the transaction that inserted it, the time that  *)
(* transaction began; glob.now counts the transactions begun.              *)

\* Transactions begun in a behaviour.
MaxStarts == 4

Runners == {"j1", "j2"}

\* The values the item's updated_at takes as the item is edited.
Stamps == {1, 2}

NotRunning ==
    [pc |-> "out", force |-> FALSE, version |-> NoVersion, snap |-> NoSnap, staged |-> {},
     began |-> 0, result |-> ""]

InitRuns ==
    /\ thr = [j \in Runners |-> NotRunning]
    /\ db = [snapshots |-> {}, files |-> {}, chunks |-> {}]
    /\ item = ItemDocs
    /\ glob = [now |-> 0]
    /\ lim = <<>> /\ fn = <<>>
    /\ task = NoTask /\ pc = "idle" /\ run = IdleRun /\ reqs = <<>> /\ jobs = NoJobs

aside == <<pc, run, reqs, jobs, lim, fn>>

\* A slip: the query filters by Task only and takes a row of any version.
SnapshotLookupAnyVersion(snaps, v) == snaps

\* db.query(TaskSnapshot).filter_by(external_task_key, snapshot_version),
\* 141-148
SnapshotLookup(snaps, v) == {s \in snaps : s.version = v}

\* background_tasks.add_task(run_sync_pipeline_background, ..), tasks.py 100
\* and monday_handoff.py 111: a job is queued while others may be in flight.
QueueRun(j) ==
    /\ thr[j].pc = "out"
    /\ \E force \in BOOLEAN : thr' = [thr EXCEPT ![j] = [NotRunning EXCEPT !.pc = "queued", !.force = force]]
    /\ UNCHANGED <<item, db, task, glob, aside>>

\* run_sync_pipeline 134-160: the session's transaction begins with the
\* Task lookup; fetch, fingerprint, snapshot lookup, the unchanged return or
\* the Snapshot to ingest into; a new Snapshot is added to the session and
\* flushed, not committed.
LookupSnapshot(j) ==
    /\ thr[j].pc = "queued"
    /\ glob.now < MaxStarts
    /\ glob' = [glob EXCEPT !.now = @ + 1]
    /\ LET v == ComputeSnapshotVersion(item)
           hit == SnapshotLookup(db.snapshots, v)
           t == glob.now + 1
       IN thr' = [thr EXCEPT ![j] =
                    IF IsUnchanged(hit, thr[j].force)
                    THEN [@ EXCEPT !.pc = "out", !.version = v, !.began = t,
                                   !.result = "unchanged"]
                    ELSE IF hit = {}
                    THEN [@ EXCEPT !.pc = "ingest", !.version = v, !.began = t,
                                   !.snap = <<v, j>>,
                                   !.staged = {[id |-> <<v, j>>, version |-> v, created |-> t]}]
                    ELSE [@ EXCEPT !.pc = "ingest", !.version = v, !.began = t,
                                   !.snap = (CHOOSE s \in hit : TRUE).id]]
    /\ UNCHANGED <<item, db, task, aside>>

\* task.latest_snapshot_version = snapshot_version; db.commit(), 934-935
CommitRun(j) ==
    /\ thr[j].pc = "ingest"
    /\ db' = [db EXCEPT !.snapshots = @ \cup thr[j].staged]
    /\ task' = [task EXCEPT !.latest = thr[j].version]
    /\ thr' = [thr EXCEPT ![j].pc = "out", ![j].staged = {}, ![j].result = "done"]
    /\ UNCHANGED <<item, glob, aside>>

\* An exception escapes the asset loop; db.rollback(), 960
RunRaises(j) ==
    /\ thr[j].pc = "ingest"
    /\ thr' = [thr EXCEPT ![j].pc = "out", ![j].staged = {}, ![j].result = "failed"]
    /\ UNCHANGED <<item, db, task, glob, aside>>

\* The item is edited in the work-item system: its updated_at moves on.
ItemUpdated ==
    /\ \E t \in Stamps : t > item.updated_at /\ item' = [item EXCEPT !.updated_at = t]
    /\ UNCHANGED <<thr, db, task, glob, aside>>

NextRuns ==
    \/ \E j \in Runners : QueueRun(j)
    \/ \E j \in Runners : LookupSnapshot(j)
    \/ \E j \in Runners : CommitRun(j)
    \/ \E j \in Runners : RunRaises(j)
    \/ ItemUpdated

SpecRuns == InitRuns /\ [][NextRuns]_vars

\* C30: in every reachable database state there is at most one Snapshot row
\* per (Task, fingerprint) pair, also when a run is repeated with force and
\* when several runs for the same Task overlap in time.
C30_OneSnapshotPerFingerprint ==
    \A s \in db.snapshots, t \in db.snapshots : s.version = t.version => s = t

\* C30, the part each run delivers: a run that goes on to ingest creates a
\* Snapshot exactly when no committed Snapshot carries the fingerprint at
\* the time of its lookup, and otherwise ingests into a committed one of
\* that fingerprint; a run with force = false that finds one stops.
C30_CreatesOnlyWhenNoneSeen ==
    [][ \A j \in Runners :
          (thr[j].pc = "queued" /\ thr'[j].pc # "queued")
            => LET v == ComputeSnapshotVersion(item)
                   seen == {s \in db.snapshots : s.version = v}
               IN IF seen = {}
                  THEN /\ thr'[j].pc = "ingest"
                       /\ thr'[j].staged = {[id |-> thr'[j].snap, version |-> v,
                                             created |-> glob'.now]}
                       /\ \A s \in db.snapshots : s.id # thr'[j].snap
                  ELSE /\ thr'[j].staged = {}
                       /\ \/ ~thr[j].force /\ thr'[j].pc = "out" /\ thr'[j].result = "unchanged"
                          \/ /\ thr[j].force /\ thr'[j].pc = "ingest"
                             /\ \E s \in seen : thr'[j].snap = s.id
      ]_vars

\* A forced run ingests into the Snapshot an earlier run committed for the
\* same fingerprint, while the table also holds a Snapshot of an older one.
C30_Witness ==
    \E j \in Runners :
      /\ thr[j].pc = "ingest" /\ thr[j].force /\ thr[j].staged = {}
      /\ \E s \in db.snapshots : s.id = thr[j].snap /\ s.version = ComputeSnapshotVersion(item)
      /\ \E s \in db.snapshots : s.version # ComputeSnapshotVersion(item)

LatestSnapshotOldestFirst(snaps) == {s \in snaps : \A t \in snaps : s.created <= t.created}

\* _latest_snapshot, retrieval.py 19-25, and task_summary, tasks.py 119-124:
\* the rows of the Task ordered by created_at, newest first.
LatestSnapshot(snaps) == {s \in snaps : \A t \in snaps : t.created <= s.created}

\* C38: the Snapshot the readers take, the most recently created one of the
\* Task, has the fingerprint the Task's latest_snapshot_version names.
C38_ReadersSeeLatestVersion ==
    \A s \in LatestSnapshot(db.snapshots) : s.version = task.latest

\* A run that commits a Snapshot it created, while every committed Snapshot
\* of the Task is older than the run, leaves the readers' Snapshot and
\* latest_snapshot_version on the same fingerprint.
C38_NewestCommitNamesItsSnapshot ==
    [][\A j \in Runners :
          (/\ thr[j].pc = "ingest" /\ thr'[j].pc = "out" /\ thr'[j].result = "done"
           /\ thr[j].staged # {}
           /\ \A s \in db.snapshots : s.created < thr[j].began)
          => (/\ LatestSnapshot(db'.snapshots) = thr[j].staged
              /\ \A s \in LatestSnapshot(db'.snapshots) : s.version = task'.latest)]_vars

C38_Witness ==
    /\ Cardinality(db.snapshots) = 2
    /\ \A j \in Runners : thr[j].pc = "out"
    /\ \E s \in db.snapshots : s.created = 3
    /\ \A s \in LatestSnapshot(db.snapshots) : s.version = task.latest

-----------------------------------------------------------------------------
(* SpecBatch: process_pdf_batch, pdf_extraction.py 28-73, on a list of PDF  *)
(* files with distinct names.  A file is its size; an inference call        *)
(* (gemini_api_with_retry, retries included) returns a text or raises.      *)
(* fn.results is the list process_pdfs_in_parallel appends to, in the       *)
(* order the futures complete.                                             *)

\* Sizes of the files tried: two or three small ones are batched, two of
\* 60 MB are not.
BatchSizes == {1, 60 * MB}

BatchCalls ==
    {[op |-> "batch", sizes |-> ss, pc |-> "start", combined |-> "none", results |-> <<>>,
      out |-> <<>>] : ss \in ListsOf(BatchSizes, MaxPdfFiles)}

InitBatch ==
    /\ fn \in BatchCalls
    /\ lim = <<>> /\ thr = <<>> /\ glob = <<>>
    /\ item = ItemDocs
    /\ db = [snapshots |-> {}, files |-> {}, chunks |-> {}]
    /\ task = NoTask /\ pc = "idle" /\ run = IdleRun /\ reqs = <<>> /\ jobs = NoJobs

\* A slip: the combined call is made outside the try.
AfterCombinedUncaught(ok) == IF ok THEN "done" ELSE "raised"

\* try: return process_multiple_pdfs_single_call(..) except Exception:
\* return process_pdfs_in_parallel(..), 69-72
AfterCombined(ok) == IF ok THEN "done" ELSE "parallel"

\* The pair appended for file i, 49-54: the header and the text, or the
\* header and "Error processing PDF: <e>".
Section(i, ok) == [of |-> i, header |-> i, body |-> IF ok THEN "text" ELSE "error"]

\* sorted(results, key = index of the file), 58-63, for distinct names.
RECURSIVE SortedByIndex(_)
SortedByIndex(S) ==
    IF S = {} THEN <<>>
    ELSE LET m == CHOOSE x \in S : \A y \in S : x.of <= y.of
         IN <<m>> \o SortedByIndex(S \ {m})

\* process_pdf_batch is entered, 66-70 and 73
BatchEntered ==
    /\ fn.pc = "start"
    /\ fn' = [fn EXCEPT !.pc = IF fn.sizes = <<>> THEN "done"
                                ELSE IF ShouldBatchPdfs(fn.sizes) THEN "combined"
                                ELSE "parallel"]
    /\ UNCHANGED unused

\* process_multiple_pdfs_single_call returns or raises, 28-38 and 69-72
CombinedCallEnds ==
    /\ fn.pc = "combined"
    /\ \E ok \in BOOLEAN :
         fn' = [fn EXCEPT !.pc = AfterCombined(ok),
                          !.combined = IF ok THEN "ok" ELSE "failed",
                          !.out = IF ok THEN <<[of |-> 0, header |-> 0, body |-> "text"]>> ELSE <<>>]
    /\ UNCHANGED unused

\* The future of file i completes, 47-54
PdfFutureCompletes(i) ==
    /\ fn.pc = "parallel"
    /\ i \in 1..Len(fn.sizes)
    /\ \A k \in 1..Len(fn.results) : fn.results[k].of # i
    /\ \E ok \in BOOLEAN : fn' = [fn EXCEPT !.results = Append(@, Section(i, ok))]
    /\ UNCHANGED unused

\* process_pdfs_in_parallel returns, 56-63
ParallelReturns ==
    /\ fn.pc = "parallel"
    /\ Len(fn.results) = Len(fn.sizes)
    /\ fn' = [fn EXCEPT !.pc = "done", !.out = SortedByIndex(Range(fn.results))]
    /\ UNCHANGED unused

NextBatch ==
    \/ BatchEntered
    \/ CombinedCallEnds
    \/ \E i \in 1..MaxPdfFiles : PdfFutureCompletes(i)
    \/ ParallelReturns

SpecBatch == InitBatch /\ [][NextBatch]_vars

\* C32: for files should_batch_pdfs accepts, process_pdf_batch makes one
\* combined call; the files are processed one by one exactly when that call
\* failed, and then the result has one section per file, in the order of
\* the list, each under its file's header, with the error placeholder
\* exactly for the files whose own call failed; process_pdf_batch does not
\* raise.
C32_BatchFallback ==
    /\ fn.pc # "raised"
    /\ (ShouldBatchPdfs(fn.sizes) /\ fn.pc \in {"parallel", "done"})
         => /\ fn.combined \in {"ok", "failed"}
            /\ (fn.results # <<>> \/ fn.pc = "parallel") => fn.combined = "failed"
            /\ (fn.combined = "failed" /\ fn.pc = "done")
                 => /\ Len(fn.out) = Len(fn.sizes)
                    /\ Len(fn.results) = Len(fn.sizes)
                    /\ \A i \in 1..Len(fn.out) :
                         /\ fn.out[i].of = i /\ fn.out[i].header = i
                         /\ \E k \in 1..Len(fn.results) : fn.results[k] = fn.out[i]
            /\ (fn.combined = "ok" /\ fn.pc = "done")
                 => fn.results = <<>> /\ Len(fn.out) = 1 /\ fn.out[1].body = "text"

\* Three batchable files, the combined call failed, the second file's own
\* call failed as well and completed first.
C32_Witness ==
    /\ fn.op = "batch" /\ fn.pc = "done" /\ Len(fn.sizes) = 3 /\ ShouldBatchPdfs(fn.sizes)
    /\ fn.combined = "failed"
    /\ fn.results[1].of = 2
    /\ fn.out[2].body = "error" /\ fn.out[1].body = "text" /\ fn.out[3].body = "text"

-----------------------------------------------------------------------------
(* SpecRefill: the token bucket of GlobalGeminiRateLimiter over time,       *)
(* rate_limiter.py 8-34, with one caller that acquires and releases.  Time  *)
(* is counted in seconds.  Beside the limiter's fields lim carries what an  *)
(* observer notes from an instant t0 on: the seconds elapsed, the tokens    *)
(* credited by refills, whether a refill has reached the cap, and whether  *)
(* the last step was a call of acquire.                                     *)

MaxElapsed == 120

InitRefill ==
    /\ lim = [tokens |-> RequestsPerMinute, permits |-> MaxConcurrent, age |-> 0,
              elapsed |-> 0, credited |-> 0, capped |-> FALSE, fresh |-> FALSE, granted |-> 0]
    /\ thr = <<>> /\ glob = <<>> /\ fn = <<>>
    /\ item = ItemDocs
    /\ db = [snapshots |-> {}, files |-> {}, chunks |-> {}]
    /\ task = NoTask /\ pc = "idle" /\ run = IdleRun /\ reqs = <<>> /\ jobs = NoJobs

outside == <<item, db, task, pc, run, reqs, jobs, thr, glob, fn>>

\* acquire() is called, 16-31
AcquireCalled ==
    /\ LET add == (lim.age * RequestsPerMinute) \div 60
           a == Acquire(lim)
       IN lim' = [a.lim EXCEPT !.credited = @ + (Refilled(lim).tokens - lim.tokens),
                               !.capped = @ \/ (add > 0 /\ lim.tokens + add >= RequestsPerMinute),
                               !.fresh = TRUE,
                               !.granted = IF a.ok THEN @ + 1 ELSE @]
    /\ UNCHANGED outside

\* release() is called by the holder of a slot, 33-34
ReleaseCalled ==
    /\ lim.permits < MaxConcurrent
    /\ lim' = [Release(lim) EXCEPT !.fresh = FALSE]
    /\ UNCHANGED outside

\* A second passes.
Second ==
    /\ lim.elapsed < MaxElapsed
    /\ lim' = [lim EXCEPT !.age = @ + 1, !.elapsed = @ + 1, !.fresh = FALSE]
    /\ UNCHANGED outside

NextRefill ==
    \/ AcquireCalled
    \/ ReleaseCalled
    \/ Second

SpecRefill == InitRefill /\ [][NextRefill]_vars

\* C35: as long as no refill has reached the cap, the tokens credited up to
\* a call of acquire differ from elapsed * requests_per_minute / 60 by less
\* than one token, however often acquire was called before.
C35_RefillProRata ==
    (lim.fresh /\ ~lim.capped)
        => /\ 60 * lim.credited - lim.elapsed * RequestsPerMinute < 60
           /\ lim.elapsed * RequestsPerMinute - 60 * lim.credited < 60

\* C39: in the 60 seconds that begin with the full bucket of a new limiter,
\* no more than requests_per_minute calls of acquire succeed.
C39_AtMostRpmPerWindow ==
    lim.elapsed < 60 => lim.granted <= RequestsPerMinute

\* The calls that have succeeded since the limiter was made are the tokens
\* taken from the bucket: the initial requests_per_minute and at most the
\* pro-rata refill of the time elapsed.
C39_GrantsWithinBucketAndRefill ==
    /\ lim.granted + lim.tokens = RequestsPerMinute + lim.credited
    /\ lim.granted <= RequestsPerMinute + (lim.elapsed * RequestsPerMinute) \div 60

C39_Witness ==
    /\ lim.elapsed = 59
    /\ lim.granted = RequestsPerMinute + 1
    /\ lim.tokens = 0

-----------------------------------------------------------------------------
(* SpecHandoff: handoff codes, routes/monday_handoff.py.  handoff_init      *)
(* stores a code that expires ten minutes later; handoff_resolve is run by *)
(* concurrent requests, each with its own session: the row is read at 74,  *)
(* the link at 78-86, the monday API is asked at 91, and used = True is     *)
(* set at 94, the Task row is read at 99 and added when there is none, and *)
(* the commit at 107 writes both; tasks has the primary key               *)
(* external_task_key (models.py), so the commit of a second insert of one  *)
(* key fails.  Time is in whole units, glob.now.                           *)

\* The lifetime of a code (45) and the time observed, scaled down.
CodeLifetime == 2
MaxNow == 3

\* Codes handoff_init can hand out, and a code that was never handed out.
Codes == {"c1", "c2"}
Asked == Codes \cup {"zz"}
Resolvers == {"q1", "q2"}

\* The Task key of the item a code was made for (96-98): one item.
TaskKeyOf == [c \in Codes |-> "k1"]

NoCode == [issued |-> FALSE, used |-> FALSE, expires_at |-> 0]
NoResolve == [pc |-> "out", code |-> "", adds |-> FALSE, result |-> ""]

InitHandoff ==
    /\ db = [codes |-> [c \in Codes |-> NoCode], tasks |-> {}]
    /\ thr = [q \in Resolvers |-> NoResolve]
    /\ glob = [now |-> 0]
    /\ jobs = <<>>
    /\ lim = <<>> /\ fn = <<>>
    /\ item = ItemDocs
    /\ task = NoTask /\ pc = "idle" /\ run = IdleRun /\ reqs = <<>>

elsewhere == <<item, task, pc, run, reqs, lim, fn>>

\* A slip: the used flag is not looked at.
CodeValidIgnoresUsed(codes, c, now) ==
    /\ c \in Codes /\ codes[c].issued
    /\ codes[c].expires_at > now

\* The test of line 75, negated: the row exists, is unused and not expired.
CodeValid(codes, c, now) ==
    /\ c \in Codes /\ codes[c].issued
    /\ ~codes[c].used
    /\ codes[c].expires_at > now

\* handoff_init, 44-58
HandoffInit(c) ==
    /\ ~db.codes[c].issued
    /\ db' = [db EXCEPT !.codes[c] =
                [issued |-> TRUE, used |-> FALSE, expires_at |-> glob.now + CodeLifetime]]
    /\ UNCHANGED <<thr, glob, jobs, elsewhere>>

\* handoff_resolve, 70-76: the request arrives, the row is read and tested.
ResolveReadsCode(q) ==
    /\ thr[q].pc = "out"
    /\ \E c \in Asked :
         thr' = [thr EXCEPT ![q] =
                   IF CodeValid(db.codes, c, glob.now)
                   THEN [NoResolve EXCEPT !.pc = "link", !.code = c]
                   ELSE [NoResolve EXCEPT !.code = c, !.result = "400"]]
    /\ UNCHANGED <<db, glob, jobs, elsewhere>>

\* 78-89: the caller's link to the monday account of the code
ResolveFindsLink(q) ==
    /\ thr[q].pc = "link"
    /\ \E linked \in BOOLEAN :
         thr' = [thr EXCEPT ![q] =
                   IF linked THEN [@ EXCEPT !.pc = "access"]
                   ELSE [@ EXCEPT !.pc = "out", !.result = "403"]]
    /\ UNCHANGED <<db, glob, jobs, elsewhere>>

\* 91-92: can_read_item has answered
ResolveAsksMonday(q) ==
    /\ thr[q].pc = "access"
    /\ \E readable \in BOOLEAN :
         thr' = [thr EXCEPT ![q] =
                   IF readable THEN [@ EXCEPT !.pc = "task"]
                   ELSE [@ EXCEPT !.pc = "out", !.result = "403"]]
    /\ UNCHANGED <<db, glob, jobs, elsewhere>>

\* 94-105: used = True in the session; the Task row is read and a new one
\* added to the session when there is none.
ResolveGetsTask(q) ==
    /\ thr[q].pc = "task"
    /\ thr' = [thr EXCEPT ![q] = [@ EXCEPT !.pc = "commit",
                                           !.adds = TaskKeyOf[thr[q].code] \notin db.tasks]]
    /\ UNCHANGED <<db, glob, jobs, elsewhere>>

\* 107-117: the commit and the background job; the commit raises when the
\* Task row this request adds has been inserted by another since.
ResolveCommits(q) ==
    /\ thr[q].pc = "commit"
    /\ LET key == TaskKeyOf[thr[q].code] IN
       IF thr[q].adds /\ key \in db.tasks
       THEN /\ thr' = [thr EXCEPT ![q] = [@ EXCEPT !.pc = "out", !.result = "500"]]
            /\ UNCHANGED <<db, jobs>>
       ELSE /\ db' = [db EXCEPT !.codes[thr[q].code].used = TRUE, !.tasks = @ \cup {key}]
            /\ jobs' = Append(jobs, thr[q].code)
            /\ thr' = [thr EXCEPT ![q] = [@ EXCEPT !.pc = "out", !.result = "ok"]]
    /\ UNCHANGED <<glob, elsewhere>>

\* Time passes.
TimePasses ==
    /\ glob.now < MaxNow
    /\ glob' = [glob EXCEPT !.now = @ + 1]
    /\ UNCHANGED <<db, thr, jobs, elsewhere>>

NextHandoff ==
    \/ \E c \in Codes : HandoffInit(c)
    \/ \E q \in Resolvers : ResolveReadsCode(q)
    \/ \E q \in Resolvers : ResolveFindsLink(q)
    \/ \E q \in Resolvers : ResolveAsksMonday(q)
    \/ \E q \in Resolvers : ResolveGetsTask(q)
    \/ \E q \in Resolvers : ResolveCommits(q)
    \/ TimePasses

SpecHandoff == InitHandoff /\ [][NextHandoff]_vars

\* The resolves of code c that have succeeded.
Resolved(c) == Cardinality({i \in 1..Len(jobs) : jobs[i] = c})

\* C40: a handoff code is resolved successfully at most once, also by
\* requests that run at the same time.
C40_ResolvedAtMostOnce ==
    \A c \in Codes : Resolved(c) <= 1

\* A resolve that arrives when the code is unknown, used or expired is
\* rejected with 400; a rejected resolve writes nothing and queues nothing;
\* a successful one marks its own code only and queues one job.
C40_RejectsUsedAndExpired ==
    [][\A q \in Resolvers :
          /\ (thr[q].pc = "out" /\ thr'[q] # thr[q]
              /\ (\/ thr'[q].code \notin Codes
                  \/ ~db.codes[thr'[q].code].issued
                  \/ db.codes[thr'[q].code].used
                  \/ db.codes[thr'[q].code].expires_at <= glob.now))
             => (thr'[q].pc = "out" /\ thr'[q].result = "400")
          /\ (thr'[q] # thr[q] /\ thr'[q].result \in {"400", "403", "500"})
             => (db' = db /\ jobs' = jobs)
          /\ (thr'[q] # thr[q] /\ thr'[q].result = "ok")
             => (/\ db'.codes = [db.codes EXCEPT ![thr[q].code].used = TRUE]
                 /\ db'.tasks = db.tasks \cup {TaskKeyOf[thr[q].code]}
                 /\ jobs' = Append(jobs, thr[q].code))]_vars

C40_Witness ==
    /\ Resolved("c1") = 1
    /\ db.codes["c1"].used
    /\ thr["q1"].code = "c1" /\ thr["q1"].result = "ok"
    /\ thr["q2"].code = "c1" /\ thr["q2"].result = "400"
    /\ db.codes["c2"].issued /\ ~db.codes["c2"].used /\ db.codes["c2"].expires_at <= glob.now

=============================================================================
